---- MODULE Spec2Model ----
(***************************************************************************)
(* Verification model of the universe generator, the placement solver, the *)
(* player collision resolver and the NPC behaviour of Mycvgame.            *)
(*                                                                         *)
(* Lengths are integers.  In the placement and generation parts one unit   *)
(* is one metre; boxes that were inflated by a clearance multiplier are     *)
(* kept in tenths of a unit, so that the multipliers 1.0, 1.2, 1.5, 2.0    *)
(* and 2.5 stay exact.  Math.random() is a nondeterministic choice.        *)
(***************************************************************************)
EXTENDS Integers, Sequences, FiniteSets, TLC

VARIABLES
    \* ---- placeObjectRandomly (src/js/utils.js) ----
    checkList,      \* worldObjectsForCheck: the objects of the call, in order
    placed,         \* the object being placed (position, rotation, box)
    yPosition,      \* the caller-supplied height
    maxRadius,      \* the radius of the search disk
    clearance,      \* clearanceMultiplier, in tenths
    attempts,       \* the loop counter
    positionFound,  \* the loop flag
    placePc,        \* "idle", "loop" or "done"
    \* ---- Player (src/js/player.js) ----
    world,          \* worldObjects as the frame loop passes them to update
    currentUniverseType,  \* 'main' or 'random'; what getCurrentUniverseType returns
    pPos,           \* this.mesh.position
    pVel,           \* this.velocity
    pCollider,      \* this.collider
    onGround,       \* this.onGround
    frames,         \* frames run since the last reset
    last,           \* what performCollisionDetection did in the last frame;
                    \* futures: after each response, futureCollider, correctedDelta
                    \* and mesh.position.y
    spawnPoint,     \* safeSpawnPos of the last generateUniverse (main.js:86)
    \* ---- the three.js build ----
    legacyBox3,     \* Box3.intersectsBox is the "a || b ? false : true" form
    \* ---- NPCs (src/js/npc.js) ----
    npcWorld,       \* worldObjects as the frame loop passes them to updateAllNPCs
    npc,            \* the NPC mesh with its userData, or NoNPC
    frameTime,      \* the deltaTime of the frames of this run, in ticks
    stillTime,      \* history: delta time summed over the current still span
    retargeted,     \* history: the stuck branch ran within the current still span
    \* ---- generateUniverse (src/unnamed/part_000) ----
    genPc,          \* "idle", the phase generateUniverse is in, "done" or "threw"
    gen,            \* the number of calls of generateUniverse so far
    genType,        \* the type argument
    biomeKey,       \* currentBiomeKey
    worldObjects,   \* worldObjectsRef
    activePortals,  \* activePortals
    activeNPCs,     \* npc.js activeNPCs, as the uuids of the meshes
    activeClueObjects,  \* clue.js activeClueObjects, as uuids
    pending,        \* the second portal while its loop runs
    genAttempts,    \* attempts / spawnAttempts of the loop that runs
    todo,           \* the scenery pieces still to create
    currentObjective,   \* the objective's type, or "null"
    safeSpawnPos,   \* safeSpawnPos
    result,         \* what generateUniverse returned
    \* ---- the game (src/js/main.js, src/js/clue.js) ----
    universeScore,  \* universeScore
    clueScore,      \* clueScore
    collectedClueIndices,   \* collectedClueIndices, in the order of the pushes
    mainObjective,  \* main.js currentObjective, or NoObjective
    mainWorldObjects,   \* main.js worldObjects, as kinds and ids
    availableClueIndices,   \* clue.js availableClueIndices; the shuffle makes it a set
    clueMeshes,     \* clue.js activeClueObjects: originalIndex and "has a parent"
    universeType,   \* the type of the last switchUniverse
    switches,       \* the number of calls of switchUniverse after init()
    requested,      \* the callbacks requestAnimationFrame holds
    lastFrame,      \* what the last call of animate did
    scene,          \* the meshes of the world-object list that have a parent
    completed,      \* history: the mini-objectives completed so far
    lastPress,      \* history: where the last KeyE found the player, what it called
    dealt,          \* history: the indices spawnClueObjects popped since the last refill
    lastDeal,       \* history: the last call of spawnClueObjects
    controlMap,     \* Player.controlMap: the action of each movement key
    isControlsRandomized,   \* Player.isControlsRandomized
    keysPressed,    \* main.js keysPressed, the movement keys that are down
    lastCall,       \* history: the operation that ran last
    lastSwitch      \* history: the last switchUniverse as the controls saw it

placeVars == <<checkList, placed, yPosition, maxRadius, clearance, attempts,
               positionFound, placePc>>

playerVars == <<world, currentUniverseType, pPos, pVel, pCollider, onGround, frames, last,
                spawnPoint>>

npcVars == <<npcWorld, npc, frameTime, stillTime, retargeted>>

genVars == <<genPc, gen, genType, biomeKey, worldObjects, activePortals,
             activeNPCs, activeClueObjects, pending, genAttempts, todo,
             currentObjective, safeSpawnPos, result>>

gameVars == <<universeScore, clueScore, collectedClueIndices, mainObjective,
              mainWorldObjects, availableClueIndices, clueMeshes, universeType,
              switches, requested, lastFrame, scene, completed, lastPress,
              dealt, lastDeal>>

controlVars == <<controlMap, isControlsRandomized, keysPressed, lastCall, lastSwitch>>

vars == <<placeVars, playerVars, legacyBox3, npcVars, genVars, gameVars, controlVars>>

\* what the placement steps, the player steps and the NPC steps leave alone
notPlaceVars == <<playerVars, legacyBox3, npcVars, genVars, gameVars, controlVars>>
notPlayerVars == <<placeVars, legacyBox3, npcVars, genVars, gameVars, controlVars>>
notNpcVars == <<placeVars, playerVars, legacyBox3, genVars, gameVars, controlVars>>
notGenVars == <<placeVars, playerVars, legacyBox3, npcVars, gameVars, controlVars>>
notControlVars == <<placeVars, playerVars, legacyBox3, npcVars, genVars, gameVars>>

----------------------------------------------------------------------------
(* Bounds of the model *)

\* the largest search-disk radius a call of placeObjectRandomly is given
MaxDiskRadius == 2

(* Program constants *)

MAX_PLACEMENT_ATTEMPTS == 15

----------------------------------------------------------------------------
(* THREE.Vector3 / THREE.Box3 *)

Vec(x, y, z) == <<x, y, z>>

Abs(n) == IF n < 0 THEN -n ELSE n

Box(lo, hi) == [min |-> lo, max |-> hi]

\* the value of an arithmetic expression over undefined, as
\* universeRadius * 0.8 is when updateAllNPCs is called without a radius
NaN == -1000000

IsNaN(a) == a = NaN

Plus(a, b) == IF IsNaN(a) \/ IsNaN(b) THEN NaN ELSE a + b

Minus(a, b) == IF IsNaN(a) \/ IsNaN(b) THEN NaN ELSE a - b

Times(a, b) == IF IsNaN(a) \/ IsNaN(b) THEN NaN ELSE a * b

\* every comparison with NaN is false
Lt(a, b) == ~IsNaN(a) /\ ~IsNaN(b) /\ a < b

Gt(a, b) == Lt(b, a)

Le(a, b) == ~IsNaN(a) /\ ~IsNaN(b) /\ a <= b

Ge(a, b) == Le(b, a)

\* Box3.getSize
Size(b) == <<Minus(b.max[1], b.min[1]), Minus(b.max[2], b.min[2]),
             Minus(b.max[3], b.min[3])>>

\* Box3.intersectsBox: closed boxes, touching counts as intersecting.  The
\* older builds return "some face is separated ? false : true", the newer
\* ones the conjunction of the six overlaps; they differ on NaN only.
IntersectsBox(a, b) ==
    IF legacyBox3
    THEN ~(\E i \in 1..3 : Lt(b.max[i], a.min[i]) \/ Gt(b.min[i], a.max[i]))
    ELSE \A i \in 1..3 : Ge(b.max[i], a.min[i]) /\ Le(b.min[i], a.max[i])

\* a box in tenths of a unit
Scale10(b) ==
    Box(<<Times(10, b.min[1]), Times(10, b.min[2]), Times(10, b.min[3])>>,
        <<Times(10, b.max[1]), Times(10, b.max[2]), Times(10, b.max[3])>>)

\* Box3.setFromObject for a mesh of half extents half at pos; a yaw of a
\* quarter turn swaps the x and z extents
SetFromObject(pos, half, yaw) ==
    LET h == IF yaw = 1 THEN <<half[3], half[2], half[1]>> ELSE half
    IN  Box(<<Minus(pos[1], h[1]), Minus(pos[2], h[2]), Minus(pos[3], h[3])>>,
            <<Plus(pos[1], h[1]), Plus(pos[2], h[2]), Plus(pos[3], h[3])>>)

\* object.rotation.y = Math.random() * 2 PI, as quarter turns
Yaws == {0, 1}

----------------------------------------------------------------------------
(* World objects: a mesh with its userData tags *)

Obj(id, kind, pos, half, yaw, hasBox) ==
    [id |-> id, kind |-> kind, pos |-> pos, half |-> half, yaw |-> yaw,
     hasBox |-> hasBox, box |-> SetFromObject(pos, half, yaw)]

\* userData.isGround: the ground disk or the platform
IsGround(o) == o.kind \in {"ground", "platform"}

\* the object after its transform was set and its box recomputed
MoveTo(o, pos, yaw) ==
    [o EXCEPT !.pos = pos, !.yaw = yaw, !.hasBox = TRUE,
              !.box = SetFromObject(pos, o.half, yaw)]

----------------------------------------------------------------------------
(* placeObjectRandomly and isPlacementAreaClearBox (src/js/utils.js) *)

\* placementCheckBounds: the object's box, expanded on every side by
\* size * (clearanceMultiplier - 1) unless the multiplier is 1.0; in tenths
InflatedBounds(b, cm10) ==
    LET s == Size(b)
        v == IF cm10 # 10
             THEN <<Times(s[1], cm10 - 10), Times(s[2], cm10 - 10),
                    Times(s[3], cm10 - 10)>>
             ELSE <<0, 0, 0>>
        t == Scale10(b)
    IN  Box(<<Minus(t.min[1], v[1]), Minus(t.min[2], v[2]), Minus(t.min[3], v[3])>>,
            <<Plus(t.max[1], v[1]), Plus(t.max[2], v[2]), Plus(t.max[3], v[3])>>)

\* the objects the loop of isPlacementAreaClearBox does not skip
Checked(checkObjects, selfId) ==
    {i \in 1..Len(checkObjects) :
        /\ checkObjects[i].id # selfId
        /\ ~IsGround(checkObjects[i])
        /\ checkObjects[i].hasBox}

\* the loop of isPlacementAreaClearBox stopping one object short
ClearStopsOneShort(bounds10, checkObjects, selfId) ==
    \A i \in Checked(checkObjects, selfId) \ {Len(checkObjects)} :
        ~IntersectsBox(bounds10, Scale10(checkObjects[i].box))

\* isPlacementAreaClearBox(objectCheckBounds, checkObjects, selfObject)
IsPlacementAreaClearBox(bounds10, checkObjects, selfId) ==
    \A i \in Checked(checkObjects, selfId) :
        ~IntersectsBox(bounds10, Scale10(checkObjects[i].box))

\* the points (cos(angle) * radius, sin(angle) * radius) with
\* radius = Math.random() * maxRadius, on the integer grid
Disk(r) == {p \in (-r..r) \X (-r..r) : p[1] * p[1] + p[2] * p[2] < r * r}

\* one pass of the loop body for the candidate (p, yaw)
\* a candidate that is put on the height 0 whatever the caller asked for
CandidateAtZero(o, y, p, yaw) == MoveTo(o, Vec(p[1], 0, p[2]), yaw)

Candidate(o, y, p, yaw) == MoveTo(o, Vec(p[1], y, p[2]), yaw)

CandidateClear(o, cm10, checkObjects) ==
    IsPlacementAreaClearBox(InflatedBounds(o.box, cm10), checkObjects, o.id)

\* the loop guard with <= for <
LoopGuardOffByOne == attempts <= MAX_PLACEMENT_ATTEMPTS /\ ~positionFound

\* while (attempts < MAX_PLACEMENT_ATTEMPTS && !positionFound)
LoopGuard == attempts < MAX_PLACEMENT_ATTEMPTS /\ ~positionFound

\* the objects and arguments the placement calls of the model are made with
GroundObj == Obj(1, "ground", Vec(0, -1, 0), <<9, 1, 9>>, 0, TRUE)
RockObj   == Obj(2, "scenery", Vec(2, 1, 0), <<1, 1, 1>>, 0, TRUE)
WallObj   == Obj(3, "scenery", Vec(0, 5, 0), <<9, 9, 9>>, 0, TRUE)
BareObj   == Obj(4, "scenery", Vec(0, 1, 0), <<1, 1, 1>>, 0, FALSE)
CubeObj   == Obj(5, "clue", Vec(0, 0, 0), <<1, 1, 1>>, 0, TRUE)
SlabObj   == Obj(6, "portal", Vec(0, 0, 0), <<2, 1, 1>>, 0, TRUE)

CheckLists ==
    {<<>>, <<GroundObj>>, <<GroundObj, RockObj>>, <<GroundObj, WallObj>>,
     <<GroundObj, BareObj>>, <<GroundObj, RockObj, BareObj>>,
     <<GroundObj, CubeObj, RockObj>>, <<GroundObj, SlabObj>>,
     <<RockObj>>, <<GroundObj, RockObj, WallObj>>}

Clearances == {10, 12, 15, 25}
Heights == {1, 4}

----------------------------------------------------------------------------
(* Player (src/js/player.js).  In this part one unit of length is 0.05 m   *)
(* and a frame lasts the clamped deltaTime of 0.05 s, so that a velocity   *)
(* of 1 m/s moves the player one unit a frame and gravity (-20 m/s^2)      *)
(* takes one unit of velocity a frame.                                     *)

\* the most frames the model runs between two resets of the player
MaxFrames == 26

\* the largest horizontal speed the input stage builds up in the model
MaxWalk == 2

PLAYER_HEIGHT == 36
PLAYER_RADIUS == 8
PLAYER_BASE_SPEED == 5
JUMP_VELOCITY == 8
RESPAWN_Y_THRESHOLD == -400
UNIVERSE_RADIUS == 700
MAIN_UNIVERSE_RADIUS == 300

\* this.currentPhysics.gravity * deltaTime, the velocity gained in a frame
GravityPerFrame == -1

\* const stepHeight = 0.2
StepHeight == 4

\* the lower limit -0.1 of the step-up window
StepFloor == -2

Sign(n) == IF n > 0 THEN 1 ELSE IF n < 0 THEN -1 ELSE 0

VAdd(a, b) == <<a[1] + b[1], a[2] + b[2], a[3] + b[3]>>

\* Box3.translate
Translate(b, d) == Box(VAdd(b.min, d), VAdd(b.max, d))

\* Math.floor(Math.sqrt(n))
Isqrt(n) == CHOOSE r \in 0..n : r * r <= n /\ (r + 1) * (r + 1) > n

\* the half extents of the player's box: radius, capsule half height plus
\* radius, radius
PlayerHalf ==
    <<PLAYER_RADIUS, (PLAYER_HEIGHT - 2 * PLAYER_RADIUS) \div 2 + PLAYER_RADIUS,
      PLAYER_RADIUS>>

\* updateCollider: the box around the mesh position
UpdateCollider(pos) ==
    Box(<<pos[1] - PlayerHalf[1], pos[2] - PlayerHalf[2], pos[3] - PlayerHalf[3]>>,
        <<pos[1] + PlayerHalf[1], pos[2] + PlayerHalf[2], pos[3] + PlayerHalf[3]>>)

\* the constructor: this.mesh.position.y = PLAYER_HEIGHT / 2 + 0.1
ConstructedPosition == <<0, PLAYER_HEIGHT \div 2 + 2, 0>>

IsNPC(o) == o.kind = "npc"

IsNonCollidable(o) == o.kind = "marker"

\* the skips of the loop without the one of the NPCs
CollisionSkippedButNPCs(o) == ~o.hasBox \/ IsNonCollidable(o)

\* the objects the loop of performCollisionDetection skips
CollisionSkipped(o) == ~o.hasBox \/ IsNonCollidable(o) \/ IsNPC(o)

\* penetration on axis k: the half sizes added, less the distance of the
\* centres (sizes and centre sums are even in every world of the model, so
\* the halving is exact)
Penetration(a, b, k) ==
    ((a.max[k] - a.min[k]) + (b.max[k] - b.min[k])
       - Abs((a.min[k] + a.max[k]) - (b.min[k] + b.max[k]))) \div 2

\* Math.sign(centerPlayer - centerObject) on axis k
SignCorrection(a, b, k) == Sign((a.min[k] + a.max[k]) - (b.min[k] + b.max[k]))

\* the axis of the smallest positive penetration, 0 when there is none
\* (the three tests run in the order x, y, z with a strict comparison)
MinAxis(pen) ==
    LET a1 == IF pen[1] > 0 THEN 1 ELSE 0
        a2 == IF pen[2] > 0 /\ (a1 = 0 \/ pen[2] < pen[a1]) THEN 2 ELSE a1
    IN  IF pen[3] > 0 /\ (a2 = 0 \/ pen[3] < pen[a2]) THEN 3 ELSE a2

\* the shift of the displacement on the separation axis as the response
\* would make it if it pushed away from the obstacle
PushAway(d, minPen, sign) == d + minPen * sign

\* correctedDelta -= minPen * signCorrection
PushBack(d, minPen, sign) == d - minPen * sign

\* the landing correction halved
LandingCorrectionHalved(surfaceY, bottomFutureY) ==
    (surfaceY - bottomFutureY) \div 2

\* const correction = groundSurfaceY - playerBottomFutureY
LandingCorrection(surfaceY, bottomFutureY) == surfaceY - bottomFutureY

\* the ground branch for a ground object the future box intersects
GroundResponse(st, o, collider) ==
    LET groundSurfaceY == o.box.max[2]
        playerBottomFutureY == st.fut.min[2]
        groundClearance == groundSurfaceY - collider.min[2]
    IN  IF playerBottomFutureY <= groundSurfaceY
        THEN IF groundClearance <= StepHeight /\ groundClearance > StepFloor
             THEN LET cd == <<st.cd[1], 0, st.cd[3]>>
                  IN  [st EXCEPT !.meshY = @ + groundClearance,
                                 !.cd = cd,
                                 !.vel = <<@[1], 0, @[3]>>,
                                 !.grounded = TRUE,
                                 !.fut = Translate(collider, cd),
                                 !.ground = "step",
                                 !.groundTop = groundSurfaceY,
                                 !.futures =
                                     Append(@, [fut |-> Translate(collider, cd),
                                                cd |-> cd,
                                                meshY |-> st.meshY + groundClearance])]
             ELSE LET correction ==
                          LandingCorrection(groundSurfaceY, playerBottomFutureY)
                  IN  [st EXCEPT !.cd = <<@[1], @[2] + correction, @[3]>>,
                                 !.vel = <<@[1], 0, @[3]>>,
                                 !.grounded = TRUE,
                                 !.fut = Translate(@, <<0, correction, 0>>),
                                 !.ground = "land",
                                 !.groundTop = groundSurfaceY,
                                 !.futures =
                                     Append(@, [fut |-> Translate(st.fut,
                                                           <<0, correction, 0>>),
                                                cd |-> <<st.cd[1], st.cd[2] + correction,
                                                         st.cd[3]>>,
                                                meshY |-> st.meshY])]
        ELSE st

\* the separation response for any other object the future box intersects
ObstacleResponse(st, o, collider) ==
    LET pen == <<Penetration(st.fut, o.box, 1), Penetration(st.fut, o.box, 2),
                 Penetration(st.fut, o.box, 3)>>
        axis == MinAxis(pen)
        minPen == IF axis = 0 THEN 0 ELSE pen[axis]
        sign == IF axis = 0 THEN 0 ELSE SignCorrection(st.fut, o.box, axis)
        yActs == ~st.grounded \/ sign < 0
        cd == IF axis = 1 THEN <<PushBack(st.cd[1], minPen, sign), st.cd[2], st.cd[3]>>
              ELSE IF axis = 2 /\ yActs
                   THEN <<st.cd[1], PushBack(st.cd[2], minPen, sign), st.cd[3]>>
              ELSE IF axis = 3
                   THEN <<st.cd[1], st.cd[2], PushBack(st.cd[3], minPen, sign)>>
              ELSE st.cd
        vel == IF axis = 1 THEN <<0, st.vel[2], st.vel[3]>>
               ELSE IF axis = 2 /\ yActs
                       /\ ((st.vel[2] > 0 /\ sign < 0) \/ (st.vel[2] < 0 /\ sign > 0))
                    THEN <<st.vel[1], 0, st.vel[3]>>
               ELSE IF axis = 3 THEN <<st.vel[1], st.vel[2], 0>>
               ELSE st.vel
    IN  [st EXCEPT !.cd = cd, !.vel = vel,
                   !.fut = Translate(collider, cd),
                   !.struck = Append(@, [id |-> o.id, axis |-> axis,
                                         pen |-> minPen, sign |-> sign]),
                   !.futures = Append(@, [fut |-> Translate(collider, cd),
                                          cd |-> cd, meshY |-> st.meshY])]

\* the loop over worldObjects, from object i on
RECURSIVE Resolve(_, _, _, _, _)
Resolve(i, objs, collider, originalDelta, st) ==
    IF i > Len(objs) THEN st
    ELSE LET o == objs[i]
             next ==
                 IF CollisionSkipped(o) \/ ~IntersectsBox(st.fut, o.box) THEN st
                 ELSE LET t == [st EXCEPT !.touched = @ \cup {o.id}]
                      IN  IF originalDelta[2] <= 0 /\ IsGround(o)
                          THEN GroundResponse(t, o, collider)
                          ELSE ObstacleResponse(t, o, collider)
         IN  Resolve(i + 1, objs, collider, originalDelta, next)

\* performCollisionDetection(deltaPosition, worldObjects)
PerformCollisionDetection(deltaPosition, objs, collider, vel, meshY) ==
    Resolve(1, objs, collider, deltaPosition,
            [cd |-> deltaPosition, grounded |-> FALSE, vel |-> vel,
             meshY |-> meshY, fut |-> Translate(collider, deltaPosition),
             ground |-> "none", groundTop |-> 0, touched |-> {},
             struck |-> <<>>, futures |-> <<>>])

\* integer division that rounds toward zero
DivTZ(a, b) == IF a >= 0 THEN a \div b ELSE -((-a) \div b)

\* the radius update takes from getCurrentUniverseType
CurrentRadius(type) ==
    IF type = "main" THEN MAIN_UNIVERSE_RADIUS ELSE UNIVERSE_RADIUS

\* the boundary stage of update: beyond maxDist the position is put back on
\* the circle and the outward velocity is taken off (rounded toward zero)
BoundaryClamp(pos, vel, radius) ==
    LET maxDist == radius - PLAYER_RADIUS
        distSq == pos[1] * pos[1] + pos[3] * pos[3]
    IN  IF distSq > maxDist * maxDist
        THEN LET n == Isqrt(distSq)
                 x == DivTZ(pos[1] * maxDist, n)
                 z == DivTZ(pos[3] * maxDist, n)
                 outwardSpeed == DivTZ(vel[1] * x + vel[3] * z, maxDist)
             IN  [pos |-> <<x, pos[2], z>>,
                  vel |-> IF outwardSpeed > 0
                          THEN <<vel[1] - DivTZ(x * outwardSpeed * 11, maxDist * 10),
                                 vel[2],
                                 vel[3] - DivTZ(z * outwardSpeed * 11, maxDist * 10)>>
                          ELSE vel]
        ELSE [pos |-> pos, vel |-> vel]

\* the x velocity the input stage can leave: on the ground the velocity
\* moves a fifth of the way to the target (or keeps nearly all of itself
\* under friction), in the air three hundredths of the way
InputVelocities(v, grounded) ==
    IF grounded THEN {w \in {v - 1, v, v + 1} : Abs(w) <= MaxWalk} ELSE {v}

\* reset(position) when update passes on the spawnPoint it was not given
FallbackPosition == <<0, PLAYER_HEIGHT \div 2 + 2, 100>>

\* the worlds of the model: ground first, as generateUniverse pushes it
DiskGround == Obj(1, "ground", <<0, -2, 0>>, <<700, 2, 700>>, 0, TRUE)
PlatformGround == Obj(1, "ground", <<0, 0, 0>>, <<50, 10, 50>>, 0, TRUE)
HighClue == Obj(2, "clue", <<36, 30, 0>>, <<8, 8, 8>>, 0, TRUE)
SideRock == Obj(3, "scenery", <<52, 20, 24>>, <<20, 20, 20>>, 0, TRUE)
VineMarker == Obj(4, "marker", <<12, 30, 0>>, <<4, 4, 4>>, 0, TRUE)
WanderingNPC == Obj(5, "npc", <<14, 12, 0>>, <<12, 12, 12>>, 0, TRUE)

\* safeSpawnPos of a generated universe (0, PLAYER_HEIGHT * 1.5, 0) and of
\* the hub (0, PLAYER_HEIGHT / 2 + 0.1, radius / 2)
DefaultSpawn == <<0, (PLAYER_HEIGHT * 3) \div 2, 0>>
HubSpawnPoint == <<0, PLAYER_HEIGHT \div 2 + 2, MAIN_UNIVERSE_RADIUS \div 2>>

\* safeSpawnPos of a platform universe after eight nudges of 0.4 m along x:
\* findGroundHeight finds nothing there and y is PLAYER_HEIGHT * 1.5
NudgedOffPlatform == <<64, (PLAYER_HEIGHT * 3) \div 2, 0>>

CollideWorlds ==
    {[type |-> "random", objects |-> <<DiskGround>>, spawn |-> DefaultSpawn],
     [type |-> "random", objects |-> <<DiskGround, HighClue>>, spawn |-> DefaultSpawn],
     [type |-> "random", objects |-> <<DiskGround, SideRock>>, spawn |-> DefaultSpawn],
     [type |-> "random", objects |-> <<DiskGround, VineMarker, WanderingNPC>>,
      spawn |-> DefaultSpawn],
     [type |-> "random", objects |-> <<PlatformGround, HighClue>>,
      spawn |-> DefaultSpawn],
     [type |-> "random", objects |-> <<PlatformGround, HighClue>>,
      spawn |-> NudgedOffPlatform],
     [type |-> "main",
      objects |-> <<Obj(1, "ground", <<0, -2, 0>>, <<300, 2, 300>>, 0, TRUE)>>,
      spawn |-> HubSpawnPoint]}


----------------------------------------------------------------------------
(* NPCs (src/js/npc.js).  In this part one unit of length is 0.025 m and   *)
(* one tick of time 0.025 s; a frame lasts one or two ticks, deltaTime     *)
(* being clamped to 0.05 s.  A speed of 1 m/s is one unit a tick.  The     *)
(* NPCs of the model live on the x axis (z = 0).                           *)

\* STUCK_TIME_LIMIT = 3.0 s
STUCK_TIME_LIMIT == 120

\* state.stuckTimer += 0.2 on a collision, += 0.1 at the boundary
CollisionStuckTime == 8
BoundaryStuckTime == 4

\* speed: PLAYER_BASE_SPEED * 0.5 * speedMultiplier * randFloat(0.8, 1.2),
\* here 5 * 0.5 * 1.0 * 0.8 = 2 m/s
NpcSpeed == 2

\* distanceToTargetSq < 1.5 and dirAway.lengthSq() < 9, in square units
ArrivalDistSq == 2400
NearTargetDistSq == 14400

\* Constants.UNIVERSE_RADIUS in the units of this part
NpcUniverseRadius == 2 * UNIVERSE_RADIUS

\* npcSize 0.8: a BoxGeometry of half extent 0.4 m
NpcHalf == 16

\* deltaTime = Math.min(clock.getDelta(), 0.05), in ticks: a display at
\* 40 or at 20 frames a second
FrameTimes == {1, 2}

\* state.waitTimer = randFloat(1.5, 5.0), in ticks
WaitTimes == {60, 200}

\* Math.cos(angle) * Math.random(), in percent of the wander radius
TargetFractions == {-40, 5, 40}

\* targetY = randFloat(1.0, 10.0) and startY = randFloat(npcSize * 2, 8.0)
FlyHeights == {64, 120}

\* Vector3.add, Vector3.sub, Vector3.distanceToSquared
VPlus(a, b) == <<Plus(a[1], b[1]), Plus(a[2], b[2]), Plus(a[3], b[3])>>

VMinus(a, b) == <<Minus(a[1], b[1]), Minus(a[2], b[2]), Minus(a[3], b[3])>>

LengthSq(d) == Plus(Plus(Times(d[1], d[1]), Times(d[2], d[2])), Times(d[3], d[3]))

DistSq(a, b) == LengthSq(VMinus(a, b))

\* Box3.translate
TranslateBox(b, d) == Box(VPlus(b.min, d), VPlus(b.max, d))

\* the sign of a component of a normalized vector; normalize() divides by
\* (length || 1), which leaves a NaN component NaN and the others finite
Dir(c) == IF IsNaN(c) THEN NaN ELSE Sign(c)

\* spawnNPCs: the npcData record with its mesh (position, bounding box).
\* rot is mesh.rotation.y past the rotation placeObjectRandomly gave, in
\* steps of 0.1 rad/s * one tick; boxRot is the rotation the stored box was
\* computed at.  For turns below an eighth the x and z extents of the box
\* of a mesh grow strictly with the turn, so two boxes of the mesh are equal
\* exactly when they are computed at the same position and rotation.
NewNPC(behavior, pos, target) ==
    [behavior |-> behavior, canFly |-> behavior = "wanderer_fly",
     pos |-> pos, box |-> SetFromObject(pos, <<NpcHalf, NpcHalf, NpcHalf>>, 0),
     vel |-> <<0, 0, 0>>,
     speed |-> IF behavior = "hint" THEN 0 ELSE NpcSpeed,
     isWaiting |-> FALSE, waitTimer |-> 0, stuckTimer |-> 0,
     lastPosition |-> pos, target |-> target,
     rot |-> 0, boxRot |-> 0]

NoNPC == NewNPC("none", <<0, 0, 0>>, <<0, 0, 0>>)

\* setNewNPCTarget: a point of the wander disk, or a far point on the other
\* side when that one is within 3 m.  Without a universeRadius the wander
\* radius is undefined * 0.8, and the target's x and z are NaN.
SetNewNPCTarget(n, universeRadius, frac, flyY) ==
    LET wanderRadius == IF IsNaN(universeRadius) THEN NaN
                        ELSE (universeRadius * (IF n.canFly THEN 9 ELSE 8)) \div 10
        targetY == IF n.canFly THEN flyY ELSE n.pos[2]
        near == <<IF IsNaN(wanderRadius) THEN NaN
                  ELSE Sign(frac) * ((Abs(frac) * wanderRadius) \div 100),
                  targetY, Times(0, wanderRadius)>>
        radiusAway == IF IsNaN(wanderRadius) THEN NaN ELSE (wanderRadius * 7) \div 10
        far == <<IF Lt(n.pos[1], 0) THEN radiusAway ELSE Minus(0, radiusAway),
                 targetY, Times(0, radiusAway)>>
    IN  [n EXCEPT !.target = IF Lt(DistSq(near, n.pos), NearTargetDistSq)
                             THEN far ELSE near,
                  !.isWaiting = FALSE]

\* distMovedSq < STUCK_THRESHOLD_SQ * (deltaTime / 0.016), that is
\* 0.000625 d < 0.001 * 0.025 dt / 0.016 for d square units and dt ticks
BarelyMoved(distMovedSq, dt) == Lt(Times(2, distMovedSq), 5 * dt)

\* the stuck branch of updateNPC is taken in this frame
StuckBranchTaken(n, dt) ==
    /\ ~n.isWaiting /\ n.behavior # "hint" /\ dt > 0
    /\ (IF BarelyMoved(DistSq(n.pos, n.lastPosition), dt)
        THEN n.stuckTimer + dt ELSE 0) > STUCK_TIME_LIMIT

\* updateNPC, "Check if Stuck".  The nudge of at most 0.1 * speed that
\* follows the new target is below one unit a tick.
StuckCheck(n, dt, universeRadius, frac, flyY) ==
    IF ~n.isWaiting /\ n.behavior # "hint" /\ dt > 0
    THEN LET a == IF BarelyMoved(DistSq(n.pos, n.lastPosition), dt)
                  THEN [n EXCEPT !.stuckTimer = @ + dt]
                  ELSE [n EXCEPT !.stuckTimer = 0, !.lastPosition = n.pos]
         IN  IF a.stuckTimer > STUCK_TIME_LIMIT
             THEN [SetNewNPCTarget(a, universeRadius, frac, flyY)
                      EXCEPT !.stuckTimer = 0]
             ELSE a
    ELSE [n EXCEPT !.stuckTimer = 0,
                   !.lastPosition = IF n.behavior = "hint" THEN @ ELSE n.pos]

\* a waiting NPC that picks up speed: *= 1.9 for *= 0.9
DampBoosting(v) == IF IsNaN(v) THEN NaN ELSE Sign(v) * ((Abs(v) * 19) \div 10)

\* velocity *= 0.9
Damp(v) == IF IsNaN(v) THEN NaN ELSE Sign(v) * ((Abs(v) * 9) \div 10)

\* handleWanderBehavior.  The approach of the velocity to direction * speed
\* by a tenth a frame is taken as reached at once.
HandleWanderBehavior(n, dt, universeRadius, frac, flyY, wait) ==
    LET w == IF ~n.isWaiting THEN n
             ELSE IF n.waitTimer - dt <= 0
             THEN [SetNewNPCTarget([n EXCEPT !.waitTimer = @ - dt],
                                   universeRadius, frac, flyY)
                      EXCEPT !.stuckTimer = 0, !.lastPosition = n.pos]
             ELSE [n EXCEPT !.waitTimer = @ - dt,
                            !.vel = <<Damp(@[1]), @[2], Damp(@[3])>>]
        direction == VMinus(w.target, w.pos)
    IN  IF w.isWaiting THEN w
        ELSE IF Lt(LengthSq(direction), ArrivalDistSq)
        THEN [w EXCEPT !.isWaiting = TRUE, !.waitTimer = wait]
        ELSE [w EXCEPT !.vel =
                 <<Times(Dir(direction[1]), w.speed),
                   IF w.canFly THEN Dir(direction[2]) * (w.speed \div 2) ELSE @[2],
                   Times(Dir(direction[3]), w.speed)>>]


\* the loop of applyNPCPhysicsAndCollision skips the ground, the player,
\* the NPC meshes and the objects without a box
NpcCollisionSkipped(o) == IsGround(o) \/ IsNPC(o) \/ ~o.hasBox

\* the collision response without the rise of the stuck timer
CollisionResponseNoTimer(n) ==
    [n EXCEPT !.vel = <<0, @[2], 0>>]

\* the collision response: velocity.x = velocity.z = 0, stuckTimer += 0.2
CollisionResponse(n) ==
    [n EXCEPT !.vel = <<0, @[2], 0>>, !.stuckTimer = @ + CollisionStuckTime]

\* applyNPCPhysicsAndCollision, "1. Ground Collision": the delta after it.
\* For an NPC under gravity velocity.y is gravity * deltaTime after the
\* ground zeroed it, a fall of 0.01 m a tick: above the cut of
\* deltaPos.lengthSq() < 0.00001, below one unit; the ground at y = 0 takes
\* it back whenever the NPC stands on it.
GroundStep(n, dt) ==
    LET dx == Times(n.vel[1], dt)
        dz == Times(n.vel[3], dt)
    IN  [npc |-> n,
         delta |-> IF n.canFly THEN <<dx, n.vel[2] * dt, dz>>
                   ELSE IF n.pos[2] - NpcHalf <= 0
                   THEN <<dx, NpcHalf - n.pos[2], dz>>
                   ELSE <<dx, -1, dz>>]

\* "2. Boundary Collision"; on the x axis the push back is along x.
\* multiplyScalar scales outwardDir in place, so the direction the velocity
\* is projected on and reduced along has the length k of the push back,
\* 1.1 * over / 40 m: the velocity loses k * k of its outward component
\* (rounded toward zero)
BoundaryStep(s) ==
    LET maxDist == (NpcUniverseRadius * 95) \div 100
        x == Plus(s.npc.pos[1], s.delta[1])
        z == Plus(s.npc.pos[3], s.delta[3])
    IN  IF Gt(Plus(Times(x, x), Times(z, z)), maxDist * maxDist)
        THEN [npc |-> [s.npc EXCEPT
                         !.stuckTimer = @ + BoundaryStuckTime,
                         !.vel = <<IF @[1] * Sign(x) > 0
                                   THEN @[1] - DivTZ(@[1] * 121 * (Abs(x) - maxDist)
                                                          * (Abs(x) - maxDist),
                                                     160000)
                                   ELSE @[1],
                                   @[2], @[3]>>],
              delta |-> <<s.delta[1]
                            - Sign(x) * (((Abs(x) - maxDist) * 11) \div 10),
                          s.delta[2], s.delta[3]>>]
        ELSE s

\* "3. NPC vs World Objects" and the final position update
CollisionStep(s, objs) ==
    LET collisionDetected ==
            \E i \in 1..Len(objs) :
                /\ ~NpcCollisionSkipped(objs[i])
                /\ IntersectsBox(TranslateBox(s.npc.box, s.delta), objs[i].box)
    IN  IF collisionDetected
        THEN [CollisionResponse(s.npc) EXCEPT
                 !.pos = VPlus(@, <<0, s.delta[2], 0>>)]
        ELSE [s.npc EXCEPT !.pos = VPlus(@, s.delta)]

\* applyNPCPhysicsAndCollision: the three steps in order
ApplyNPCPhysicsAndCollision(n, dt, objs) ==
    IF dt <= 0 THEN n
    ELSE IF n.canFly /\ n.vel = <<0, 0, 0>> THEN n
    ELSE CHOOSE r \in {CollisionStep(b, objs) :
                          b \in {BoundaryStep(g) : g \in {GroundStep(n, dt)}}} :
             TRUE

\* "Update BBox"
UpdateBBox(n) ==
    IF Gt(DistSq(n.pos, n.lastPosition), 0)
    THEN [n EXCEPT !.box = SetFromObject(n.pos, <<NpcHalf, NpcHalf, NpcHalf>>, 0),
                   !.boxRot = n.rot]
    ELSE n

\* updateNPC without the case of the hint NPC in its switch
UpdateNPCHintWanders(n, dt, objs, universeRadius, frac, flyY, wait) ==
    CHOOSE r \in
        {UpdateBBox(ApplyNPCPhysicsAndCollision(w, dt, objs)) :
            w \in {HandleWanderBehavior(a, dt, universeRadius, frac, flyY, wait) :
                      a \in {StuckCheck(n, dt, universeRadius, frac, flyY)}}} :
        TRUE

\* updateNPC for one NPC and one frame: the stuck check, the behaviour,
\* physics and collision, the box; a hint NPC turns by 0.1 * deltaTime and
\* returns before the box
UpdateNPC(n, dt, objs, universeRadius, frac, flyY, wait) ==
    CHOOSE r \in
        {IF n.behavior = "hint" THEN ApplyNPCPhysicsAndCollision(w, dt, objs)
         ELSE UpdateBBox(ApplyNPCPhysicsAndCollision(w, dt, objs)) :
            w \in {IF n.behavior = "hint" THEN [a EXCEPT !.rot = @ + dt]
                   ELSE HandleWanderBehavior(a, dt, universeRadius, frac,
                                             flyY, wait) :
                      a \in {StuckCheck(n, dt, universeRadius, frac, flyY)}}} :
        TRUE

\* the universeRadius that animate passes to updateAllNPCs: none
FrameUniverseRadius == NaN

\* a generated universe: the ground, a rock, and a portal whose height is
\* Constants.PORTAL_HEIGHT / 2 with PORTAL_HEIGHT undefined
NpcGround == Obj(1, "ground", <<0, -4, 0>>, <<NpcUniverseRadius, 4, NpcUniverseRadius>>, 0, TRUE)

NpcRock == Obj(2, "scenery", <<120, 40, 0>>, <<40, 40, 40>>, 0, TRUE)

NpcPortal ==
    [id |-> 3, kind |-> "portal", pos |-> <<0, NaN, -400>>,
     half |-> <<32, NaN, 12>>, yaw |-> 0, hasBox |-> TRUE,
     box |-> Box(<<-32, NaN, -412>>, <<32, NaN, -388>>)]

NpcWorlds ==
    {<<NpcGround, NpcRock, NpcPortal>>,
     <<NpcGround, NpcRock, NpcPortal,
       Obj(4, "npc", <<40, NpcHalf, 0>>, <<NpcHalf, NpcHalf, NpcHalf>>, 0, TRUE)>>}

Behaviors == {"wanderer", "guard", "hint", "wanderer_fly"}

\* where placeObjectRandomly leaves an NPC (its result is not looked at)
NpcStarts == {0, 40, 120}

\* the frames of a hint NPC the model follows, in ticks
MaxSpin == 6

----------------------------------------------------------------------------
(* generateUniverse (src/unnamed/part_000).  In this part one unit of      *)
(* length is 0.1 m; boxes inflated by a clearance multiplier are in        *)
(* hundredths of a metre.                                                  *)

\* the number of calls of generateUniverse in a run
MaxGenerations == 2

\* the caps on numScenery, numToSpawn (NPCs, clues) and the shard count
MaxScenery == 1
MaxNPCs == 1
MaxClues == 1
MaxShards == 1

\* constants.js exports neither PORTAL_WIDTH nor PORTAL_HEIGHT: every
\* arithmetic expression over Constants.PORTAL_WIDTH is NaN
PORTAL_WIDTH == NaN
PORTAL_HEIGHT == NaN

PLAYER_SPAWN_CLEARANCE_RADIUS == 15

\* a / 2
HalfOf(a) == IF IsNaN(a) THEN NaN ELSE a \div 2

\* the universe radius and the player height in the units of this part
GenRadius(type) ==
    IF type = "main" THEN MAIN_UNIVERSE_RADIUS \div 2 ELSE UNIVERSE_RADIUS \div 2

GenPlayerHeight == PLAYER_HEIGHT \div 2

\* mesh.uuid: the generation that created the mesh and its serial number
Uuid(g, n) == 100 * g + n

\* Box3.expandByVector
ExpandByVector(b, v) == Box(VMinus(b.min, v), VPlus(b.max, v))

\* Math.max(lo, Math.min(hi, c)), NaN if any of them is
Clamp(c, lo, hi) ==
    IF IsNaN(c) \/ IsNaN(lo) \/ IsNaN(hi) THEN NaN
    ELSE IF c < lo THEN lo ELSE IF c > hi THEN hi ELSE c

\* Box3.intersectsSphere: the clamped centre is within the radius
IntersectsSphere(b, centre, radius) ==
    Le(DistSq(<<Clamp(centre[1], b.min[1], b.max[1]),
                Clamp(centre[2], b.min[2], b.max[2]),
                Clamp(centre[3], b.min[3], b.max[3])>>, centre),
       radius * radius)

\* isSpawnAreaClear(position, radius, checkObjects)
IsSpawnAreaClear(position, radius, checkObjects) ==
    \A i \in 1..Len(checkObjects) :
        \/ IsGround(checkObjects[i])
        \/ ~checkObjects[i].hasBox
        \/ ~IntersectsSphere(checkObjects[i].box, position, radius)

\* a findGroundHeight that casts its ray against every object of the list
FindHeightOfAnything(position, objs) ==
    LET hits == {i \in 1..Len(objs) :
                   /\ Le(Abs(Minus(position[1], objs[i].pos[1])), objs[i].half[1])
                   /\ Le(Abs(Minus(position[3], objs[i].pos[3])), objs[i].half[3])
                   /\ Ge(Plus(position[2], 50), objs[i].box.max[2])
                   /\ Le(Minus(Plus(position[2], 50), objs[i].box.max[2]), 200)}
    IN  IF hits = {} THEN NaN
        ELSE objs[CHOOSE i \in hits :
                      \A j \in hits : objs[j].box.max[2] <= objs[i].box.max[2]].box.max[2]

\* findGroundHeight: the top of the ground under the point, for a ray that
\* starts 5 m above it and reaches 20 m down; intersects[0] is the hit
\* nearest to the ray's origin, the highest one; NaN stands for null
FindGroundHeight(position, objs) ==
    LET hits == {i \in 1..Len(objs) :
                   /\ IsGround(objs[i])
                   /\ IF objs[i].kind = "platform"
                      THEN /\ Le(Abs(position[1]), objs[i].half[1])
                           /\ Le(Abs(position[3]), objs[i].half[3])
                      ELSE Le(Plus(Times(position[1], position[1]),
                                   Times(position[3], position[3])),
                              objs[i].half[1] * objs[i].half[1])
                   /\ Ge(Plus(position[2], 50), objs[i].box.max[2])
                   /\ Le(Minus(Plus(position[2], 50), objs[i].box.max[2]), 200)}
    IN  IF hits = {} THEN NaN
        ELSE objs[CHOOSE i \in hits :
                      \A j \in hits : objs[j].box.max[2] <= objs[i].box.max[2]].box.max[2]

\* createPortalMesh: PlaneGeometry(undefined, undefined) is the 1 x 1 plane
PortalMesh(id, type) ==
    Obj(id, IF type = "main" THEN "portal-main" ELSE "portal-random",
        <<0, 0, 0>>, <<5, 5, 0>>, 0, TRUE)

\* userData.type of a portal
PortalType(o) == IF o.kind = "portal-main" THEN "main" ELSE "random"

\* updatePortalBoundingBox: setFromObject, expanded by the thickness 0.6 / 2
\* along x and z (the componentwise absolute value of the rotated vector)
UpdatePortalBoundingBox(o) ==
    [o EXCEPT !.box = ExpandByVector(SetFromObject(o.pos, o.half, o.yaw),
                                     <<3, 0, 3>>)]

\* the height fix after a placement: the ground height plus h, or h alone
\* when findGroundHeight found nothing
AtGroundPlus(o, objs, h) ==
    [o EXCEPT !.pos = <<@[1],
                        IF IsNaN(FindGroundHeight(o.pos, objs)) THEN h
                        ELSE Plus(FindGroundHeight(o.pos, objs), h),
                        @[3]>>]

\* the points of the model that placeObjectRandomly draws from
GenPoints == {<<0, 0>>, <<100, 0>>}

\* placeObjectRandomly as a relation: it returns with the object at a
\* candidate, true when that candidate is clear and false when it is the
\* last of MAX_PLACEMENT_ATTEMPTS candidates none of which was clear
PlaceOutcomes(o, y, diskRadius, checkObjects, cm10) ==
    {[obj |-> c, ok |-> CandidateClear(c, cm10, checkObjects)] :
        c \in {Candidate(o, y, p, 0) :
                 p \in {q \in GenPoints :
                          q[1] * q[1] + q[2] * q[2] < diskRadius * diskRadius}}}


\* the biomes of biomes.js that getRandomBiomeKey draws from, with one
\* prefab of each (rock_medium, floating_rock, and for the last two a name
\* that createSceneryObject does not know, which gives the default box):
\* the ground mode, the prefab's mesh (half extents and initial height),
\* the NPC rules and the mini-objective
BiomeKeys == {"CRYSTAL_CAVES", "VOLCANIC", "FLOATING_ISLANDS", "TECHNO_GRID"}

Biome(key) ==
    IF key = "CRYSTAL_CAVES"
    THEN [isPlatformBased |-> FALSE, prefabHalf |-> <<10, 10, 10>>, prefabY |-> 8,
          maxCount |-> 3, npcStartY |-> 4,
          possibleTypes |-> {"collect_shards", "reach_beacon"},
          shardCount |-> 4, beaconHeight |-> 100]
    ELSE IF key = "VOLCANIC"
    THEN [isPlatformBased |-> FALSE, prefabHalf |-> <<5, 5, 5>>, prefabY |-> 5,
          maxCount |-> 2, npcStartY |-> 4,
          possibleTypes |-> {"collect_shards"},
          shardCount |-> 3, beaconHeight |-> 100]
    ELSE IF key = "FLOATING_ISLANDS"
    THEN [isPlatformBased |-> TRUE, prefabHalf |-> <<15, 15, 15>>, prefabY |-> 0,
          maxCount |-> 3, npcStartY |-> 40,
          possibleTypes |-> {"reach_beacon"},
          shardCount |-> 3, beaconHeight |-> 150]
    ELSE [isPlatformBased |-> FALSE, prefabHalf |-> <<5, 5, 5>>, prefabY |-> 5,
          maxCount |-> 4, npcStartY |-> 4,
          possibleTypes |-> {"activate_terminals"},
          shardCount |-> 3, beaconHeight |-> 100]

\* the ground: the platform of 5 x 1 x 5 at the origin, or the disk of
\* height 0.2 at y = -0.1
GroundMesh(id, type, isPlatformBased) ==
    IF isPlatformBased
    THEN Obj(id, "platform", <<0, 0, 0>>, <<25, 5, 25>>, 0, TRUE)
    ELSE Obj(id, "ground", <<0, -1, 0>>, <<GenRadius(type), 1, GenRadius(type)>>,
             0, TRUE)

\* worldObjectsRef.push(portal), dropped
WithPortalDropped(objs, portal) == objs

\* the portal put in front of the list
WithPortalFirst(objs, portal) == <<portal>> \o objs

\* worldObjectsRef.push(portal)
WithPortal(objs, portal) == Append(objs, portal)

\* the hub portal: finalY is 1.5 because PORTAL_HEIGHT / 2 is NaN
HubPortal(id) ==
    UpdatePortalBoundingBox(
        [PortalMesh(id, "random") EXCEPT
            !.pos = <<0, IF IsNaN(HalfOf(PORTAL_HEIGHT)) THEN 15
                         ELSE HalfOf(PORTAL_HEIGHT),
                      15 - GenRadius("main")>>])

\* the hub console: the loaded model (a box of 3 x 2.5 x 3 m stands for it)
\* or the two cylinders of the procedural fallback
HubConsole(g, n, modelLoaded) ==
    IF modelLoaded
    THEN <<[Obj(Uuid(g, n), "scenery", <<0, 0, 0>>, <<15, 12, 15>>, 0, TRUE)
               EXCEPT !.box = Box(<<-15, 0, -15>>, <<15, 25, 15>>)]>>
    ELSE <<Obj(Uuid(g, n), "scenery", <<0, 5, 0>>, <<18, 5, 18>>, 0, TRUE),
           [Obj(Uuid(g, n + 1), "scenery", <<0, 12, 0>>, <<10, 2, 10>>, 0, TRUE)
               EXCEPT !.box = Box(<<-10, 10, -10>>, <<10, 15, 10>>)]>>

\* the spawn point before the clearance loop, at the hub's centre
HubSpawnAtCentre == <<0, GenPlayerHeight \div 2 + 1, 0>>

\* the spawn point before the clearance loop
HubSpawnPos == <<0, GenPlayerHeight \div 2 + 1, GenRadius("main") \div 2>>

\* the first conjunct of the second portal's condition:
\* portalRnd.position.distanceTo(portalMain.position) > PORTAL_WIDTH * 3
FarEnough(a, b) ==
    Gt(DistSq(a.pos, b.pos),
       Times(Times(PORTAL_WIDTH, 3), Times(PORTAL_WIDTH, 3)))

\* a conjunction that evaluates its second conjunct whatever the first is
SecondConjunctAlways(first) == TRUE \/ first

\* a && b evaluates b only when a is true; here b is a call of
\* isPlacementAreaClearBox, which part_000 does not import
SecondConjunctEvaluated(first) == first

\* a scenery mesh after "if (placedOk)": on the ground when it was found
SceneryGrounded(o, objs) ==
    IF IsNaN(FindGroundHeight(o.pos, objs)) THEN o
    ELSE MoveTo(o, <<o.pos[1], FindGroundHeight(o.pos, objs) + o.half[2],
                     o.pos[3]>>, o.yaw)

\* a loop of k placements of meshes m (kind, half, y, radius, cm10); the
\* meshes are pushed to the list as they are placed (pushEach) or kept
\* apart; the set of the outcomes [objs, made]
RECURSIVE PlacedLoop(_, _, _, _, _)
PlacedLoop(g, objs, made, k, m) ==
    IF k = 0 THEN {[objs |-> objs, made |-> made]}
    ELSE UNION {PlacedLoop(g, IF m.pushEach THEN Append(objs, out.obj) ELSE objs,
                           Append(made, out.obj), k - 1, m) :
                  out \in PlaceOutcomes(
                      Obj(Uuid(g, Len(objs)
                                  + (IF m.pushEach THEN 0 ELSE Len(made)) + 1),
                          m.kind, <<0, 0, 0>>, m.half, 0, TRUE),
                      m.y, m.radius, objs, m.cm10)}

\* (Math.random() - 0.5) * 1.0 on x and on z
NudgeSamples == {<<4, 0>>, <<-4, 0>>}

\* the spawn point after one pass of the clearance loop
Nudged(position, nudge, objs) ==
    LET x == position[1] + nudge[1]
        z == position[3] + nudge[2]
    IN  <<x,
          IF IsNaN(FindGroundHeight(<<x, position[2], z>>, objs))
          THEN (GenPlayerHeight * 3) \div 2
          ELSE FindGroundHeight(<<x, position[2], z>>, objs)
                   + GenPlayerHeight \div 2 + 1,
          z>>

NoMesh == Obj(0, "none", <<0, 0, 0>>, <<0, 0, 0>>, 0, FALSE)

NoResult ==
    [safeSpawnPos |-> <<0, 0, 0>>, physicsParams |-> "none",
     shouldRandomizeControls |-> FALSE, currentObjective |-> "none"]

----------------------------------------------------------------------------
(* The game state of main.js and the clue pool of clue.js.  Positions play  *)
(* no part here: which object is within reach of the player when a key     *)
(* goes down is an input of the key handler.                                *)

MaxSwitches == 2
MasterClueCount == 3
GameShards == 2

\* the world-object list generateUniverse leaves behind, in the order of its
\* pushes: ground, portals, console (hub) or NPC, clues, objective items
GameContents(type, picks, items) ==
    IF type = "main"
    THEN << [kind |-> "ground", id |-> 0], [kind |-> "portal", id |-> 1],
            [kind |-> "console", id |-> 2] >>
    ELSE << [kind |-> "ground", id |-> 0], [kind |-> "portal", id |-> 1],
            [kind |-> "portal", id |-> 2], [kind |-> "npc", id |-> 3] >>
         \o [i \in 1..Len(picks) |-> [kind |-> "clue", id |-> picks[i]]]
         \o [i \in 1..items |-> [kind |-> "item", id |-> i]]

\* scene.add for every mesh generateUniverse pushes to the list
InScene(list) == {list[i] : i \in DOMAIN list}

\* a removal that leaves the list as it is
FilteredNothing(list, kind, id) == list

\* worldObjects.filter(obj => obj !== mesh)
Filtered(list, kind, id) ==
    SelectSeq(list, LAMBDA o : ~(o.kind = kind /\ o.id = id))

\* Constants.CLUE_INTERACTION_DISTANCE 2.5, NPC_HINT_INTERACTION_DISTANCE 3.0
\* and OBJECTIVE_ITEM_INTERACTION_DISTANCE 2.0, squared, in units of 0.5 m
ClueReachSq == 25
NpcReachSq == 36
ItemReachSq == 16

\* where placeObjectRandomly left the meshes of the universe, on a line in
\* units of 0.5 m: the clue of index k, the NPC, the objective item i
TargetX(kind, id) ==
    IF kind = "clue" THEN 4 * id
    ELSE IF kind = "npc" THEN 11
    ELSE 13 + 2 * id

\* where a key press finds the player on that line
PlayerSpots == {2, 3, 9, 12, 18, 30}

\* handleInteraction's loop from index i on: the closest object so far
RECURSIVE ClosestFrom(_, _, _, _, _)
ClosestFrom(objects, at, i, closestDistSq, targetIndex) ==
    IF i > Len(objects) THEN targetIndex
    ELSE LET distSq == (at - objects[i].x) * (at - objects[i].x)
         IN  IF objects[i].parent /\ distSq < closestDistSq
             THEN ClosestFrom(objects, at, i + 1, distSq, i)
             ELSE ClosestFrom(objects, at, i + 1, closestDistSq, targetIndex)

\* a handleInteraction that takes the first object within the distance
HandleInteractionFirst(objects, reachSq, at) ==
    IF \E i \in DOMAIN objects :
          objects[i].parent /\ (at - objects[i].x) * (at - objects[i].x) < reachSq
    THEN CHOOSE i \in DOMAIN objects :
            /\ objects[i].parent
            /\ (at - objects[i].x) * (at - objects[i].x) < reachSq
            /\ \A j \in 1..(i - 1) :
                  ~(objects[j].parent
                    /\ (at - objects[j].x) * (at - objects[j].x) < reachSq)
    ELSE 0

\* handleInteraction: the index of the object the callback is called with,
\* 0 when there is none (an empty list, or nothing with a parent within the
\* distance)
HandleInteraction(objects, reachSq, at) ==
    IF Len(objects) = 0 THEN 0
    ELSE ClosestFrom(objects, at, 1, reachSq, 0)

\* a check that never finds the index
IncludesNever(list, index) == FALSE

\* collectedClueIndices.includes(originalIndex)
Includes(list, index) == \E i \in DOMAIN list : list[i] = index

\* a completion check that fires one item early
ObjectiveReachedEarly(current, required) == current + 1 >= required

\* currentObjective.current >= currentObjective.required
ObjectiveReached(current, required) == current >= required

\* a spawnClueObjects that reshuffles on every call
PoolAlwaysReset(pool) == 0..(MasterClueCount - 1)

\* spawnClueObjects, clue.js:104-107: the pool it deals from
PoolAtSpawn(pool) == IF pool = {} THEN 0..(MasterClueCount - 1) ELSE pool

\* the history of key presses before the first one
NoPress == [at |-> 0, called |-> <<>>]

\* main.js currentObjective when there is none
NoObjective == [type |-> "null", current |-> 0, required |-> 0, items |-> {}]

\* a tail of switchUniverse that clears the counter on the way to the hub
ScoreResetInHub(type, score) == IF type = "random" THEN score + 1 ELSE 0

\* main.js:97-101: the score counts the switches to a random universe
ScoreAfterSwitch(type, score) == IF type = "random" THEN score + 1 ELSE score

----------------------------------------------------------------------------
(* The parts of the state a specification does not run stay as constructed *)

\* the record of a frame in which performCollisionDetection did nothing
NoFrame ==
    [delta |-> <<0, 0, 0>>, ground |-> "none", groundTop |-> 0,
     touched |-> {}, struck |-> <<>>, corrected |-> <<0, 0, 0>>,
     respawned |-> FALSE, futures |-> <<>>]

\* the movement keys, and constants.js controlActions and defaultControlMap
MoveKeys == {"KeyW", "KeyS", "KeyA", "KeyD"}

controlActions == <<"forward", "backward", "left", "right">>

defaultControlMap ==
    [k \in MoveKeys |->
        CASE k = "KeyW" -> "forward"
          [] k = "KeyS" -> "backward"
          [] k = "KeyA" -> "left"
          [] OTHER -> "right"]

\* an exchange that writes one side only
SwapOneSide(array, i, j) == [array EXCEPT ![i] = array[j]]

\* [array[i], array[j]] = [array[j], array[i]]
Swap(array, i, j) == [array EXCEPT ![i] = array[j], ![j] = array[i]]

\* the draws of shuffleArray: for the place i, from the last down to the
\* second, floor(Math.random() * (i + 1)) is one of the places up to i
ShuffleDraws(len) == {js \in [2..len -> 1..len] : \A i \in 2..len : js[i] <= i}

\* utils.js shuffleArray from the place i downwards, with the draws js
RECURSIVE ShuffleArray(_, _, _)
ShuffleArray(array, i, js) ==
    IF i < 2 THEN array ELSE ShuffleArray(Swap(array, i, js[i]), i - 1, js)

\* Player.randomizeControls, with the draws of its shuffle
RandomizeControls(map, js) ==
    LET shuffledActions == ShuffleArray(controlActions, Len(controlActions), js)
    IN  [map EXCEPT !["KeyW"] = shuffledActions[1],
                    !["KeyS"] = shuffledActions[2],
                    !["KeyA"] = shuffledActions[3],
                    !["KeyD"] = shuffledActions[4]]

\* Player.update: the input vector <<strafe, forward>> of the keys that are
\* down, before it is normalised
RECURSIVE InputVector(_, _)
InputVector(keys, map) ==
    IF keys = {} THEN <<0, 0>>
    ELSE LET k == CHOOSE x \in keys : TRUE
             rest == InputVector(keys \ {k}, map)
             action == map[k]
         IN  CASE action = "forward" -> <<rest[1], rest[2] + 1>>
               [] action = "backward" -> <<rest[1], rest[2] - 1>>
               [] action = "left" -> <<rest[1] - 1, rest[2]>>
               [] OTHER -> <<rest[1] + 1, rest[2]>>

NoSwitch == [type |-> "none", shouldRandomizeControls |-> FALSE, was |-> defaultControlMap]

\* the controls of a constructed Player, with no key down
ControlsIdle ==
    /\ controlMap = defaultControlMap
    /\ isControlsRandomized = FALSE
    /\ keysPressed = {}
    /\ lastCall = "none"
    /\ lastSwitch = NoSwitch

PlayerIdle ==
    /\ world = <<>>
    /\ currentUniverseType = "main"
    /\ pPos = ConstructedPosition
    /\ pVel = <<0, 0, 0>>
    /\ pCollider = UpdateCollider(ConstructedPosition)
    /\ onGround = FALSE
    /\ frames = 0
    /\ last = NoFrame
    /\ spawnPoint = ConstructedPosition

NpcIdle ==
    /\ npcWorld = <<>>
    /\ npc = NoNPC
    /\ frameTime = 2
    /\ stillTime = 0
    /\ retargeted = FALSE

GenIdle ==
    /\ genPc = "idle"
    /\ gen = 0
    /\ genType = "main"
    /\ biomeKey = "TARDIS"
    /\ worldObjects = <<>>
    /\ activePortals = <<>>
    /\ activeNPCs = <<>>
    /\ activeClueObjects = <<>>
    /\ pending = NoMesh
    /\ genAttempts = 0
    /\ todo = 0
    /\ currentObjective = "null"
    /\ safeSpawnPos = <<0, 0, 0>>
    /\ result = NoResult

\* the game when init() has returned: the hub is generated, the loop is started
GameIdle ==
    /\ universeScore = 0
    /\ clueScore = 0
    /\ collectedClueIndices = <<>>
    /\ mainObjective = [type |-> "null", current |-> 0, required |-> 0, items |-> {}]
    /\ mainWorldObjects = GameContents("main", <<>>, 0)
    /\ availableClueIndices = 0..(MasterClueCount - 1)
    /\ clueMeshes = <<>>
    /\ universeType = "main"
    /\ switches = 0
    /\ requested = 1
    /\ lastFrame = [scheduled |-> TRUE, raised |-> "none", escaped |-> FALSE,
                    rendered |-> FALSE]
    /\ scene = InScene(GameContents("main", <<>>, 0))
    /\ completed = 0
    /\ lastPress = NoPress
    /\ dealt = {}
    /\ lastDeal = [count |-> 0, refilled |-> FALSE, poolSize |-> 0]

PlaceIdle ==
    /\ checkList = <<>>
    /\ placed = Obj(0, "none", <<0, 0, 0>>, <<0, 0, 0>>, 0, FALSE)
    /\ yPosition = 0
    /\ maxRadius = 0
    /\ clearance = 10
    /\ attempts = 0
    /\ positionFound = FALSE
    /\ placePc = "idle"

----------------------------------------------------------------------------
(* The placement solver on its own: calls of placeObjectRandomly *)

PlaceInit ==
    /\ checkList = <<>>
    /\ placed = CubeObj
    /\ yPosition = 0
    /\ maxRadius = 1
    /\ clearance = 10
    /\ attempts = 0
    /\ positionFound = FALSE
    /\ placePc = "idle"
    /\ PlayerIdle
    /\ NpcIdle
    /\ GenIdle
    /\ GameIdle /\ ControlsIdle
    /\ legacyBox3 = FALSE

\* a caller enters placeObjectRandomly
PlaceCall ==
    /\ placePc \in {"idle", "done"}
    /\ checkList' \in CheckLists
    /\ placed' \in {CubeObj, SlabObj}
    /\ yPosition' \in Heights
    /\ maxRadius' \in 1..MaxDiskRadius
    /\ clearance' \in Clearances
    /\ attempts' = 0
    /\ positionFound' = FALSE
    /\ placePc' = "loop"
    /\ UNCHANGED notPlaceVars

\* one iteration of the while loop
PlaceAttempt ==
    /\ placePc = "loop"
    /\ LoopGuard
    /\ \E p \in Disk(maxRadius), yaw \in Yaws :
          LET c == Candidate(placed, yPosition, p, yaw)
          IN  /\ placed' = c
              /\ positionFound' = CandidateClear(c, clearance, checkList)
    /\ attempts' = attempts + 1
    /\ UNCHANGED <<checkList, yPosition, maxRadius, clearance, placePc>>
    /\ UNCHANGED notPlaceVars

\* the loop is left and positionFound is returned
PlaceReturn ==
    /\ placePc = "loop"
    /\ ~LoopGuard
    /\ placePc' = "done"
    /\ UNCHANGED <<checkList, placed, yPosition, maxRadius, clearance,
                   attempts, positionFound>>
    /\ UNCHANGED notPlaceVars

PlaceNext == PlaceCall \/ PlaceAttempt \/ PlaceReturn

SpecPlace == PlaceInit /\ [][PlaceNext]_vars

\* C1: whenever placeObjectRandomly returns true, the placed object's box at
\* its final position, inflated by the clearance multiplier, intersects the
\* box of no listed object other than itself and the ground-tagged ones.
C1_PlacedBoxClear ==
    (placePc = "done" /\ positionFound) =>
        \A i \in 1..Len(checkList) :
            (/\ checkList[i].id # placed.id
             /\ ~IsGround(checkList[i])
             /\ checkList[i].hasBox)
            => ~IntersectsBox(InflatedBounds(placed.box, clearance),
                              Scale10(checkList[i].box))

\* a successful return next to an obstacle, with a real inflation
C1_Witness ==
    /\ placePc = "done" /\ positionFound
    /\ clearance = 12
    /\ \E i \in 1..Len(checkList) : checkList[i].id = RockObj.id
    /\ yPosition = 1

C16_FailureLeavesLastSample ==
    (placePc = "done" /\ ~positionFound) =>
        /\ placed.pos[2] = yPosition
        /\ <<placed.pos[1], placed.pos[3]>> \in Disk(maxRadius)
        /\ placed.box = SetFromObject(placed.pos, placed.half, placed.yaw)
        /\ ~CandidateClear(placed, clearance, checkList)

\* C16, the same part: no step of a call changes the list it was given
C16_ListUnmodified == [][placePc = "loop" => checkList' = checkList]_vars

----------------------------------------------------------------------------
(* The player in a world: switchUniverse, the frames of animate, jump *)

CollideInit ==
    PlaceIdle /\ PlayerIdle /\ NpcIdle /\ GenIdle /\ GameIdle /\ ControlsIdle /\ legacyBox3 = FALSE

\* switchUniverse: a universe is generated and the player reset at its spawn
EnterWorld ==
    /\ \E w \in CollideWorlds :
          /\ world' = w.objects
          /\ currentUniverseType' = w.type
          /\ pPos' = w.spawn
          /\ spawnPoint' = w.spawn
          /\ pCollider' = UpdateCollider(w.spawn)
    /\ pVel' = <<0, 0, 0>>
    /\ onGround' = FALSE
    /\ frames' = 0
    /\ last' = NoFrame
    /\ UNCHANGED notPlayerVars

\* Player.update for one frame; the frames of a fall below every surface,
\* which has one course, run beyond the bound
PlayerUpdate ==
    /\ world # <<>>
    /\ frames < MaxFrames \/ pPos[2] < 0
    /\ frames' = frames + 1
    /\ IF pPos[2] < RESPAWN_Y_THRESHOLD
       THEN /\ pPos' = FallbackPosition
            /\ pVel' = <<0, 0, 0>>
            /\ onGround' = FALSE
            /\ pCollider' = UpdateCollider(FallbackPosition)
            /\ last' = [NoFrame EXCEPT !.respawned = TRUE]
       ELSE \E vx \in InputVelocities(pVel[1], onGround) :
               LET velocity == <<vx, pVel[2] + GravityPerFrame, pVel[3]>>
                   deltaPosition == velocity
                   r == PerformCollisionDetection(deltaPosition, world,
                            pCollider, velocity, pPos[2])
                   moved == VAdd(<<pPos[1], r.meshY, pPos[3]>>, r.cd)
                   b == BoundaryClamp(moved, r.vel,
                                      CurrentRadius(currentUniverseType))
               IN  /\ onGround' = r.grounded
                   /\ pPos' = b.pos
                   /\ pVel' = b.vel
                   /\ pCollider' = UpdateCollider(b.pos)
                   /\ last' = [delta |-> deltaPosition, ground |-> r.ground,
                               groundTop |-> r.groundTop, touched |-> r.touched,
                               struck |-> r.struck, corrected |-> r.cd,
                               respawned |-> FALSE, futures |-> r.futures]
    /\ UNCHANGED <<world, currentUniverseType, spawnPoint>>
    /\ UNCHANGED notPlayerVars

\* a jump that does not look at the flag
JumpsAnywhere(grounded) == TRUE

\* Player.jump: if (this.onGround)
JumpTakesEffect(grounded) == grounded

\* keydown of Space (main.js:140): Player.jump
PlayerJump ==
    /\ world # <<>>
    /\ IF JumpTakesEffect(onGround)
       THEN /\ pVel' = <<pVel[1], JUMP_VELOCITY, pVel[3]>>
            /\ onGround' = FALSE
            /\ last' = NoFrame
       ELSE UNCHANGED <<pVel, onGround, last>>
    /\ UNCHANGED <<world, currentUniverseType, pPos, pCollider, frames, spawnPoint>>
    /\ UNCHANGED notPlayerVars

CollideNext == EnterWorld \/ PlayerUpdate \/ PlayerJump

SpecCollide == CollideInit /\ [][CollideNext]_vars

\* the object of the world with the given id
WorldObject(id) == CHOOSE o \in {world[i] : i \in 1..Len(world)} : o.id = id

\* the last frame moved the player straight down onto a ground object: no
\* horizontal displacement, a vertical one <= 0, and the projected bottom at
\* or below the top of a ground object the projected box intersects
StraightDownOntoGround ==
    /\ last.delta[1] = 0 /\ last.delta[3] = 0 /\ last.delta[2] <= 0
    /\ last.ground # "none"

Landed ==
    /\ pVel[2] = 0
    /\ onGround
    /\ pCollider.min[2] = last.groundTop

\* C4 as stated: a frame that moved the player straight down onto a ground
\* object ends with vertical velocity 0, grounded, and the bottom of the
\* collider exactly at the top of the ground.
C4_LandsOnGround == StraightDownOntoGround => Landed

\* C4, amended: a frame that moved the player straight down onto a ground
\* object, and in which the projected box met no object other than ground,
\* ends with vertical velocity 0, grounded, and the bottom of the collider
\* exactly at the top of the ground, in the landing and the step-up branch.
C4_LandsOnGroundAlone ==
    (StraightDownOntoGround /\ last.struck = <<>>) => Landed

\* a step-up frame that moved the mesh, after an ordinary landing
C4_Witness ==
    /\ StraightDownOntoGround /\ last.struck = <<>>
    /\ last.ground = "step"
    /\ Landed

\* boxes that overlap with positive depth on every axis
Interpenetrates(a, b) == \A k \in 1..3 : Penetration(a, b, k) > 0

\* the last frame's projected box met exactly one object that is not ground,
\* and the separation response found an axis
SingleObstacle ==
    /\ Len(last.struck) = 1
    /\ last.struck[1].axis # 0

\* C5: when the projected box meets a single non-ground obstacle, the
\* velocity on the axis of least positive penetration is zeroed, the
\* displacement on that axis is shifted by the penetration away from the
\* obstacle's centre, and the collider does not interpenetrate the obstacle
\* after the frame.
C5_SeparatesFromObstacle ==
    SingleObstacle =>
        LET h == last.struck[1]
        IN  /\ pVel[h.axis] = 0
            /\ last.corrected[h.axis] = PushAway(last.delta[h.axis], h.pen, h.sign)
            /\ ~Interpenetrates(pCollider, WorldObject(h.id).box)

\* C11: when Player.update is entered with the player's height below
\* RESPAWN_Y_THRESHOLD, the frame processes no movement and leaves the player
\* at rest at the spawn point the last generateUniverse returned
C11_RespawnsAtSpawnPoint ==
    last.respawned =>
        /\ pPos = spawnPoint
        /\ pVel = <<0, 0, 0>>
        /\ pCollider = UpdateCollider(spawnPoint)
        /\ last.delta = <<0, 0, 0>>

C13_NpcIgnoresNPCs ==
    \A frac \in TargetFractions, flyY \in FlyHeights, wait \in WaitTimes :
        UpdateNPC(npc, frameTime, npcWorld, FrameUniverseRadius, frac, flyY, wait)
        = UpdateNPC(npc, frameTime, SelectSeq(npcWorld, LAMBDA o : ~IsNPC(o)),
                    FrameUniverseRadius, frac, flyY, wait)

\* C28: Player.jump changes the vertical velocity only when the player is on
\* the ground, and it clears the on-ground flag: for any interleaving of
\* Space key events and frames a second jump cannot take effect until a later
\* frame's collision resolution has reported the player grounded again.  A
\* step that changes the velocity outside a frame is a jump; the flag rises
\* only in a frame whose ground branch ran.
C28_NoJumpInTheAir ==
    [][/\ (frames' = frames /\ pVel' # pVel) =>
             /\ onGround /\ ~onGround'
             /\ pVel' = <<pVel[1], JUMP_VELOCITY, pVel[3]>>
             /\ pPos' = pPos
       /\ (onGround' /\ ~onGround) =>
             /\ frames' = frames + 1
             /\ last'.ground \in {"step", "land"}]_vars

\* the frame after a jump: the player rises, is not grounded, and a press of
\* Space changes nothing
C28_Witness ==
    /\ frames >= 2
    /\ ~onGround
    /\ pVel[2] = JUMP_VELOCITY + GravityPerFrame
    /\ last.ground = "none"
    /\ last.delta[2] > 0
    /\ pPos[2] > spawnPoint[2]

\* C24: in the player's collision loop, after every correction (ground
\* landing, step-up, or axis push-back) the swept box tested against the
\* remaining obstacles equals the box the player will actually occupy once
\* the frame's corrections so far are applied: futureCollider is the collider
\* of mesh.position, as the loop has changed it, moved by correctedDelta
C24_FutureBoxIsCorrectedBox ==
    [][(frames' = frames + 1 /\ ~last'.respawned) =>
          \A k \in DOMAIN last'.futures :
              last'.futures[k].fut =
                  Translate(UpdateCollider(<<pPos[1], last'.futures[k].meshY, pPos[3]>>),
                            last'.futures[k].cd)]_vars

----------------------------------------------------------------------------
(* An NPC in a generated universe: spawnNPCs, then the frames of animate *)

NpcInit ==
    PlaceIdle /\ PlayerIdle /\ NpcIdle /\ GenIdle /\ GameIdle /\ ControlsIdle /\ legacyBox3 \in BOOLEAN

\* the longest still span the history keeps apart
StillCap == STUCK_TIME_LIMIT + 2

\* spawnNPCs for one NPC: placed anywhere, given a target inside the
\* universe (here the radius is passed)
NpcSpawn ==
    /\ npc = NoNPC
    /\ \E w \in NpcWorlds : npcWorld' = w
    /\ \E dt \in FrameTimes : frameTime' = dt
    /\ \E behavior \in Behaviors, x \in NpcStarts, y \in FlyHeights,
          frac \in TargetFractions, flyY \in FlyHeights :
          LET startY == IF behavior = "wanderer_fly" THEN y ELSE NpcHalf
              n == NewNPC(behavior, <<x, startY, 0>>, <<0, 0, 0>>)
          IN  npc' = IF behavior = "hint" THEN n
                     ELSE SetNewNPCTarget(n, NpcUniverseRadius, frac, flyY)
    /\ stillTime' = 0
    /\ retargeted' = FALSE
    /\ UNCHANGED notNpcVars

\* updateAllNPCs in one frame of animate
NpcFrame ==
    /\ npc # NoNPC
    /\ npc.rot < MaxSpin
    /\ \E frac \in TargetFractions, flyY \in FlyHeights, wait \in WaitTimes :
       \E n \in {UpdateNPC(npc, frameTime, npcWorld, FrameUniverseRadius,
                            frac, flyY, wait)} :
          LET dt == frameTime
              still == /\ npc.behavior # "hint"
                       /\ ~npc.isWaiting /\ ~n.isWaiting
                       /\ ~IsNaN(npc.pos[1])
                       /\ n.pos = npc.pos
          IN  /\ npc' = n
              /\ stillTime' = IF still
                              THEN IF stillTime + dt > StillCap THEN StillCap
                                   ELSE stillTime + dt
                              ELSE 0
              /\ retargeted' = (still /\ (retargeted \/ StuckBranchTaken(npc, dt)))
    /\ UNCHANGED <<npcWorld, frameTime>>
    /\ UNCHANGED notNpcVars

NpcNext == NpcSpawn \/ NpcFrame

SpecNPC == NpcInit /\ [][NpcNext]_vars

\* C6: whenever a non-hint NPC that is not waiting has kept its position
\* over consecutive frames whose delta times total more than
\* STUCK_TIME_LIMIT, the stuck branch (setNewNPCTarget, stuckTimer = 0) has
\* run within that span
C6_StuckGetsNewTarget == stillTime > STUCK_TIME_LIMIT => retargeted

\* a span of more than 3.0 s without movement, with a new target given in it
C6_Witness == stillTime > STUCK_TIME_LIMIT /\ retargeted /\ ~npc.isWaiting

\* C12: after every frame the player is within the universe radius less
\* PLAYER_RADIUS of the centre and each NPC within 0.95 x UNIVERSE_RADIUS,
\* and a push back from the boundary leaves no outward velocity; here the
\* NPC's part: its horizontal distance from the centre is a number and is
\* at most 0.95 x UNIVERSE_RADIUS
C12_NpcWithinBoundary ==
    npc.behavior # "none" =>
        Le(Plus(Times(npc.pos[1], npc.pos[1]), Times(npc.pos[3], npc.pos[3])),
           ((NpcUniverseRadius * 95) \div 100) * ((NpcUniverseRadius * 95) \div 100))

\* C21: an NPC whose behavior is 'hint' has speed 0, is never given a wander
\* target (its targetPosition stays the zero vector it was constructed
\* with), never enters the waiting state, and its horizontal position after
\* every frame is the one it was spawned at (kept in state.lastPosition,
\* which no frame of a hint NPC writes)
C21_HintStaysPut ==
    /\ [](npc.behavior = "hint" =>
            /\ npc.speed = 0
            /\ ~npc.isWaiting
            /\ npc.target = <<0, 0, 0>>
            /\ npc.vel[1] = 0 /\ npc.vel[3] = 0
            /\ npc.pos[1] = npc.lastPosition[1]
            /\ npc.pos[3] = npc.lastPosition[3])
    /\ [][npc.behavior = "hint" =>
            /\ npc'.behavior = "hint"
            /\ npc'.pos[1] = npc.pos[1] /\ npc'.pos[3] = npc.pos[3]
            /\ npc'.lastPosition = npc.lastPosition
            /\ npc'.target = npc.target]_vars

\* a hint NPC spawned inside the rock's box, after three frames of 0.05 s
\* that each found the collision
C21_Witness ==
    /\ npc.behavior = "hint"
    /\ npc.pos[1] = 120
    /\ npc.rot = MaxSpin
    /\ npc.stuckTimer = CollisionStuckTime
    /\ frameTime = 2

\* C22: at the end of every frame the stored bounding box of every world
\* object whose position or rotation was changed in that frame (player,
\* wandering and hint NPCs, spinning portals, spinning clues) equals the box
\* computed from its current transform; here for the NPC: its
\* userData.boundingBox is the box of its mesh at its position and rotation
C22_BoxFollowsTransform ==
    npc # NoNPC =>
        /\ npc.box = SetFromObject(npc.pos, <<NpcHalf, NpcHalf, NpcHalf>>, 0)
        /\ npc.boxRot = npc.rot

\* a ground NPC as spawnNPCs leaves it, on its way to its first target
NpcFairInit ==
    /\ PlaceIdle /\ PlayerIdle /\ GenIdle /\ GameIdle /\ ControlsIdle
    /\ legacyBox3 = FALSE
    /\ npcWorld = <<NpcGround, NpcRock, NpcPortal>>
    /\ frameTime \in FrameTimes
    /\ \E frac \in TargetFractions :
          npc = SetNewNPCTarget(NewNPC("wanderer", <<0, NpcHalf, 0>>, <<0, 0, 0>>),
                                NpcUniverseRadius, frac, 64)
    /\ stillTime = 0
    /\ retargeted = FALSE

\* That NPC under the frames the browser keeps delivering: animate requests
\* its next call first (main.js:325), so as long as a frame would change the
\* NPC a frame is taken.  This is WF_vars(NpcFrame) with "a frame changes the NPC"
\* written out in place of ENABLED <<NpcFrame>>_vars, which it implies: an
\* assumption no stronger than the weak fairness of the frames.
SpecNPCFair ==
    /\ NpcFairInit
    /\ [][NpcFrame]_vars
    /\ \/ []<><<NpcFrame>>_vars
       \/ []<>(\A frac \in TargetFractions, flyY \in FlyHeights, wait \in WaitTimes :
                 UpdateNPC(npc, frameTime, npcWorld, FrameUniverseRadius,
                           frac, flyY, wait) = npc)

\* C19: a wandering NPC starts to wait only in a frame in which its target
\* is nearer than the arrival distance (1.5 squared) and with a timer of 1.5
\* to 5.0 s; a waiting NPC stops waiting only in the frame in which its
\* timer, less the frame's delta time, is at or below 0, and with a target
\* that setNewNPCTarget gave it in that frame; while it waits the timer
\* counts down, the target stays and the horizontal velocity does not grow;
\* and a waiting NPC wanders again in the end
C19_WanderWaitCycle ==
    /\ [][npc.behavior \in {"wanderer", "guard", "wanderer_fly"} =>
            /\ (~npc.isWaiting /\ npc'.isWaiting) =>
                  /\ Lt(LengthSq(VMinus(npc'.target, npc.pos)), ArrivalDistSq)
                  /\ npc'.waitTimer >= 60 /\ npc'.waitTimer <= 200
            /\ (npc.isWaiting /\ ~npc'.isWaiting) =>
                  /\ npc.waitTimer - frameTime <= 0
                  /\ \E frac \in TargetFractions, flyY \in FlyHeights :
                        npc'.target = SetNewNPCTarget(npc, FrameUniverseRadius,
                                                      frac, flyY).target
            /\ (npc.isWaiting /\ npc'.isWaiting) =>
                  /\ npc'.waitTimer = npc.waitTimer - frameTime
                  /\ npc'.waitTimer > 0
                  /\ npc'.target = npc.target
                  /\ Abs(npc'.vel[1]) <= Abs(npc.vel[1])
                  /\ Abs(npc'.vel[3]) <= Abs(npc.vel[3])
                  /\ npc'.vel[1] * npc.vel[1] >= 0
                  /\ npc'.vel[3] * npc.vel[3] >= 0]_vars
    /\ (npc.isWaiting ~> ~npc.isWaiting)

\* an NPC in the middle of a wait, still moving under the friction
C19_Witness ==
    /\ npc.behavior \in {"wanderer", "guard", "wanderer_fly"}
    /\ npc.isWaiting
    /\ npc.waitTimer > 0
    /\ npc.waitTimer < 200
    /\ npc.waitTimer # 60
    /\ npc.vel[1] # 0

\* C20: the target of a wandering NPC, given at spawn, at the end of a wait
\* or by the stuck branch in a frame, lies horizontally within the wander
\* radius (0.8 x the universe radius, 0.9 x for a flyer) of the centre, and
\* a target given in a frame is not nearer to the NPC than the too-close
\* distance (9 squared)
C20_TargetsWithinWanderRadius ==
    /\ [](npc.behavior \in {"wanderer", "guard", "wanderer_fly"} =>
            Le(Plus(Times(npc.target[1], npc.target[1]),
                    Times(npc.target[3], npc.target[3])),
               ((NpcUniverseRadius * (IF npc.canFly THEN 9 ELSE 8)) \div 10)
                   * ((NpcUniverseRadius * (IF npc.canFly THEN 9 ELSE 8)) \div 10)))
    /\ [][(npc # NoNPC /\ npc'.target # npc.target) =>
            ~Lt(DistSq(npc'.target, npc.pos), NearTargetDistSq)]_vars

----------------------------------------------------------------------------
(* generateUniverse (src/unnamed/part_000), phase by phase.  Lengths are in
   tenths of a metre. *)

GenInit ==
    PlaceIdle /\ PlayerIdle /\ NpcIdle /\ GenIdle /\ GameIdle /\ ControlsIdle /\ legacyBox3 \in BOOLEAN

\* the call, clearCurrentUniverse, the biome, the ground, and then: in the
\* hub the portal and the console; elsewhere the portal to the hub
GenerateUniverse ==
    /\ genPc \in {"idle", "done"}
    /\ gen < MaxGenerations
    /\ gen' = gen + 1
    /\ \E type \in {"main", "random"} :
        /\ genType' = type
        /\ IF type = "main"
           THEN \E modelLoaded \in BOOLEAN :
                /\ biomeKey' = "TARDIS"
                /\ worldObjects' =
                       WithPortal(<<GroundMesh(Uuid(gen + 1, 1), type, FALSE)>>,
                                  HubPortal(Uuid(gen + 1, 2)))
                           \o HubConsole(gen + 1, 3, modelLoaded)
                /\ activePortals' = <<HubPortal(Uuid(gen + 1, 2))>>
                /\ pending' = NoMesh
                /\ safeSpawnPos' = HubSpawnPos
                /\ genPc' = "spawn"
           ELSE \E key \in BiomeKeys :
                \E ground \in {GroundMesh(Uuid(gen + 1, 1), type,
                                          Biome(key).isPlatformBased)} :
                \E out \in PlaceOutcomes(PortalMesh(Uuid(gen + 1, 2), "main"),
                                         HalfOf(PORTAL_HEIGHT),
                                         (GenRadius(type) * 9) \div 10,
                                         <<ground>>, 25) :
                \E portalMain \in {UpdatePortalBoundingBox(
                                     AtGroundPlus(out.obj, <<ground>>,
                                                  HalfOf(PORTAL_HEIGHT)))} :
                /\ biomeKey' = key
                /\ worldObjects' = WithPortal(<<ground>>, portalMain)
                /\ activePortals' = <<portalMain>>
                /\ pending' = PortalMesh(Uuid(gen + 1, 3), "random")
                /\ safeSpawnPos' = <<0, (GenPlayerHeight * 3) \div 2, 0>>
                /\ genPc' = "portalRnd"
    /\ genAttempts' = 0
    /\ todo' = 0
    /\ currentObjective' = "null"
    /\ result' = NoResult
    /\ UNCHANGED <<activeNPCs, activeClueObjects>>
    /\ UNCHANGED notGenVars

\* one pass of the second portal's loop
PortalRndAttempt ==
    /\ genPc = "portalRnd"
    /\ genAttempts < MAX_PLACEMENT_ATTEMPTS
    /\ \E out \in PlaceOutcomes(pending, HalfOf(PORTAL_HEIGHT),
                                (GenRadius(genType) * 9) \div 10,
                                worldObjects, 25) :
       \E p \in {UpdatePortalBoundingBox(
                   AtGroundPlus(out.obj, worldObjects, HalfOf(PORTAL_HEIGHT)))} :
        /\ pending' = p
        /\ IF SecondConjunctEvaluated(FarEnough(p, activePortals[1]))
           THEN genPc' = "threw" /\ UNCHANGED genAttempts
           ELSE genAttempts' = genAttempts + 1 /\ UNCHANGED genPc
    /\ UNCHANGED <<gen, genType, biomeKey, worldObjects, activePortals,
                   activeNPCs, activeClueObjects, todo, currentObjective,
                   safeSpawnPos, result>>
    /\ UNCHANGED notGenVars

\* the loop's exit (placementOk is never set), the pushes of the second
\* portal, and the draw of numScenery
PortalRndPlaced ==
    /\ genPc = "portalRnd"
    /\ genAttempts >= MAX_PLACEMENT_ATTEMPTS
    /\ activePortals' = Append(activePortals, pending)
    /\ worldObjects' = WithPortal(worldObjects, pending)
    /\ pending' = NoMesh
    /\ genAttempts' = 0
    /\ \E numScenery \in 1..MaxScenery : todo' = numScenery
    /\ genPc' = "scenery"
    /\ UNCHANGED <<gen, genType, biomeKey, activeNPCs, activeClueObjects,
                   currentObjective, safeSpawnPos, result>>
    /\ UNCHANGED notGenVars

\* one pass of the scenery loop
PlaceScenery ==
    /\ genPc = "scenery"
    /\ todo > 0
    /\ todo' = todo - 1
    /\ \E out \in PlaceOutcomes(
                    Obj(Uuid(gen, Len(worldObjects) + 1), "scenery",
                        <<0, Biome(biomeKey).prefabY, 0>>,
                        Biome(biomeKey).prefabHalf, 0, TRUE),
                    Biome(biomeKey).prefabY, (GenRadius(genType) * 9) \div 10,
                    worldObjects, 15) :
        worldObjects' = IF out.ok
                        THEN Append(worldObjects,
                                    SceneryGrounded(out.obj, worldObjects))
                        ELSE worldObjects
    /\ UNCHANGED <<genPc, gen, genType, biomeKey, activePortals, activeNPCs,
                   activeClueObjects, pending, genAttempts, currentObjective,
                   safeSpawnPos, result>>
    /\ UNCHANGED notGenVars

\* spawnNPCs (npc.js): the list of the NPCs starts anew
SpawnNPCs ==
    /\ genPc = "scenery"
    /\ todo = 0
    /\ \E count \in {c \in 0..Biome(biomeKey).maxCount : c <= MaxNPCs} :
       \E r \in PlacedLoop(gen, worldObjects, <<>>, count,
                           [kind |-> "npc", half |-> <<4, 4, 4>>,
                            y |-> Biome(biomeKey).npcStartY,
                            radius |-> (GenRadius(genType) * 8) \div 10,
                            cm10 |-> 15, pushEach |-> TRUE]) :
        /\ worldObjects' = r.objs
        /\ activeNPCs' = [i \in 1..Len(r.made) |-> r.made[i].id]
    /\ genPc' = "clues"
    /\ UNCHANGED <<gen, genType, biomeKey, activePortals, activeClueObjects,
                   pending, genAttempts, todo, currentObjective, safeSpawnPos,
                   result>>
    /\ UNCHANGED notGenVars

\* spawnClueObjects (clue.js) and the pushes of the meshes it returns
SpawnClues ==
    /\ genPc = "clues"
    /\ \E count \in {c \in 1..3 : c <= MaxClues} :
       \E r \in PlacedLoop(gen, worldObjects, <<>>, count,
                           [kind |-> "clue", half |-> <<4, 4, 4>>, y |-> 10,
                            radius |-> (GenRadius(genType) * 85) \div 100,
                            cm10 |-> 12, pushEach |-> FALSE]) :
        /\ worldObjects' = r.objs \o r.made
        /\ activeClueObjects' = [i \in 1..Len(r.made) |-> r.made[i].id]
    /\ genPc' = "objective"
    /\ UNCHANGED <<gen, genType, biomeKey, activePortals, activeNPCs, pending,
                   genAttempts, todo, currentObjective, safeSpawnPos, result>>
    /\ UNCHANGED notGenVars

\* the mini-objective: skipped, or setupMiniObjective with a type of the
\* biome's configuration
MiniObjective ==
    /\ genPc = "objective"
    /\ \/ /\ currentObjective' = "null"
          /\ UNCHANGED worldObjects
       \/ \E type \in Biome(biomeKey).possibleTypes :
            IF type = "collect_shards"
            THEN \E r \in PlacedLoop(gen, worldObjects, <<>>,
                                     IF Biome(biomeKey).shardCount < MaxShards
                                     THEN Biome(biomeKey).shardCount
                                     ELSE MaxShards,
                                     [kind |-> "objective", half |-> <<3, 3, 3>>,
                                      y |-> 10,
                                      radius |-> (GenRadius(genType) * 9) \div 10,
                                      cm10 |-> 10, pushEach |-> TRUE]) :
                    /\ worldObjects' = r.objs
                    /\ currentObjective' = type
            ELSE IF type = "reach_beacon"
            THEN \E r \in PlacedLoop(gen, worldObjects, <<>>, 1,
                                     [kind |-> "objective", half |-> <<5, 10, 5>>,
                                      y |-> Biome(biomeKey).beaconHeight,
                                      radius |-> (GenRadius(genType) * 7) \div 10,
                                      cm10 |-> 15, pushEach |-> TRUE]) :
                    /\ worldObjects' = r.objs
                    /\ currentObjective' = type
            ELSE /\ currentObjective' = "null"
                 /\ UNCHANGED worldObjects
    /\ genPc' = "spawn"
    /\ UNCHANGED <<gen, genType, biomeKey, activePortals, activeNPCs,
                   activeClueObjects, pending, genAttempts, todo, safeSpawnPos,
                   result>>
    /\ UNCHANGED notGenVars

\* the guard of the spawn loop
SpawnLoopGuard ==
    /\ ~IsSpawnAreaClear(safeSpawnPos, PLAYER_SPAWN_CLEARANCE_RADIUS, worldObjects)
    /\ genAttempts < MAX_PLACEMENT_ATTEMPTS

\* one pass of the spawn loop
SpawnAttempt ==
    /\ genPc = "spawn"
    /\ SpawnLoopGuard
    /\ \E nudge \in NudgeSamples :
        safeSpawnPos' = Nudged(safeSpawnPos, nudge, worldObjects)
    /\ genAttempts' = genAttempts + 1
    /\ UNCHANGED <<genPc, gen, genType, biomeKey, worldObjects, activePortals,
                   activeNPCs, activeClueObjects, pending, todo,
                   currentObjective, result>>
    /\ UNCHANGED notGenVars

\* the return
GenerateReturn ==
    /\ genPc = "spawn"
    /\ ~SpawnLoopGuard
    /\ \E randomize \in (IF genType = "main" THEN {FALSE} ELSE BOOLEAN) :
        result' = [safeSpawnPos |-> safeSpawnPos, physicsParams |-> biomeKey,
                   shouldRandomizeControls |-> randomize,
                   currentObjective |-> currentObjective]
    /\ genPc' = "done"
    /\ genAttempts' = 0
    /\ UNCHANGED <<gen, genType, biomeKey, worldObjects, activePortals,
                   activeNPCs, activeClueObjects, pending, todo,
                   currentObjective, safeSpawnPos>>
    /\ UNCHANGED notGenVars

GenNext ==
    \/ GenerateUniverse
    \/ PortalRndAttempt
    \/ PortalRndPlaced
    \/ PlaceScenery
    \/ SpawnNPCs
    \/ SpawnClues
    \/ MiniObjective
    \/ SpawnAttempt
    \/ GenerateReturn

SpecGen == GenInit /\ [][GenNext]_vars

C8_PortalsApartAndClear ==
    (genPc = "done" /\ genType = "random") =>
        /\ Len(activePortals) = 2
        /\ \A j \in 1..Len(activePortals) :
               \E i \in 1..Len(worldObjects) : worldObjects[i] = activePortals[j]
        /\ FarEnough(activePortals[1], activePortals[2])
        /\ \A i \in 1..Len(worldObjects) :
               worldObjects[i].kind = "scenery" =>
                   \A j \in 1..Len(activePortals) :
                       ~IntersectsBox(worldObjects[i].box, activePortals[j].box)

\* C9: after a completed generation the active portals are one portal to
\* 'random' in the hub, and a portal to 'main' and a portal to 'random' in
\* a generated universe; each of them is in the list of the world objects
C9_PortalsOfTheUniverse ==
    genPc = "done" =>
        /\ {PortalType(activePortals[j]) : j \in 1..Len(activePortals)}
               = (IF genType = "main" THEN {"random"} ELSE {"main", "random"})
        /\ Len(activePortals) = (IF genType = "main" THEN 1 ELSE 2)
        /\ \A j \in 1..Len(activePortals) :
               \E i \in 1..Len(worldObjects) :
                   worldObjects[i] = activePortals[j]

\* a generated universe, returned, with its two portals
C9_Witness ==
    /\ genPc = "done"
    /\ genType = "random"
    /\ Len(activePortals) = 2
    /\ activePortals[1] # activePortals[2]

\* C10: after generateUniverse returns, whatever the universes before, the
\* list of the world objects, the active portals, the active NPCs and the
\* active clues hold objects of the latest generation only
C10_OnlyLatestGeneration ==
    genPc = "done" =>
        /\ \A i \in 1..Len(worldObjects) : worldObjects[i].id \div 100 = gen
        /\ \A i \in 1..Len(activePortals) : activePortals[i].id \div 100 = gen
        /\ \A i \in 1..Len(activeNPCs) : activeNPCs[i] \div 100 = gen
        /\ \A i \in 1..Len(activeClueObjects) : activeClueObjects[i] \div 100 = gen

\* C15 (as stated): for the points generateUniverse asks about (a scenery
\* piece's place at the height it was sampled at, the portals' positions and
\* the spawn point), findGroundHeight returns the top of the nearest ground object
\* strictly below the point, and null when the list has no ground object
\* under the point within the ray's length
C15_GroundStrictlyBelow ==
    LET Under(q, g) ==
            /\ IsGround(g)
            /\ IF g.kind = "platform"
               THEN Le(Abs(q[1]), g.half[1]) /\ Le(Abs(q[3]), g.half[3])
               ELSE Le(Plus(Times(q[1], q[1]), Times(q[3], q[3])),
                       g.half[1] * g.half[1])
    IN  \A q \in {<<worldObjects[i].pos[1], Biome(biomeKey).prefabY,
                      worldObjects[i].pos[3]>> :
                        i \in {k \in 1..Len(worldObjects) :
                                  worldObjects[k].kind = "scenery"}}
                 \cup {activePortals[i].pos : i \in 1..Len(activePortals)}
                 \cup {safeSpawnPos} :
          \A h \in {FindGroundHeight(q, worldObjects)} :
            IF IsNaN(h)
            THEN \A i \in 1..Len(worldObjects) :
                    ~(/\ Under(q, worldObjects[i])
                      /\ Lt(worldObjects[i].box.max[2], q[2])
                      /\ Le(Minus(q[2], worldObjects[i].box.max[2]), 150))
            ELSE /\ h < q[2]
                 /\ \E i \in 1..Len(worldObjects) :
                       Under(q, worldObjects[i]) /\ worldObjects[i].box.max[2] = h
                 /\ \A i \in 1..Len(worldObjects) :
                       Under(q, worldObjects[i]) /\ worldObjects[i].box.max[2] < q[2]
                           => worldObjects[i].box.max[2] <= h

\* C15 (amended): findGroundHeight returns the top of the highest ground
\* object that lies under the point and whose top is at most 5 m above and at
\* most 15 m below the point's height, and null (never the height of an
\* object that is not ground) when the list has no such ground object
C15_GroundWithinRay ==
    LET Under(q, g) ==
            /\ IsGround(g)
            /\ IF g.kind = "platform"
               THEN Le(Abs(q[1]), g.half[1]) /\ Le(Abs(q[3]), g.half[3])
               ELSE Le(Plus(Times(q[1], q[1]), Times(q[3], q[3])),
                       g.half[1] * g.half[1])
        InRay(q, top) == Le(top, Plus(q[2], 50)) /\ Ge(top, Minus(q[2], 150))
    IN  \A q \in {<<worldObjects[i].pos[1], Biome(biomeKey).prefabY,
                      worldObjects[i].pos[3]>> :
                        i \in {k \in 1..Len(worldObjects) :
                                  worldObjects[k].kind = "scenery"}}
                 \cup {activePortals[i].pos : i \in 1..Len(activePortals)}
                 \cup {safeSpawnPos} :
          \A h \in {FindGroundHeight(q, worldObjects)} :
            IF IsNaN(h)
            THEN \A i \in 1..Len(worldObjects) :
                    ~(/\ Under(q, worldObjects[i])
                      /\ InRay(q, worldObjects[i].box.max[2]))
            ELSE /\ InRay(q, h)
                 /\ \E i \in 1..Len(worldObjects) :
                       Under(q, worldObjects[i]) /\ worldObjects[i].box.max[2] = h
                 /\ \A i \in 1..Len(worldObjects) :
                       /\ Under(q, worldObjects[i])
                       /\ InRay(q, worldObjects[i].box.max[2])
                       => worldObjects[i].box.max[2] <= h

\* a scenery piece stands on a platform whose top is above the height the
\* piece was sampled at, and a portal of the same universe has no ground
\* under it
C15_Witness ==
    /\ genPc = "done"
    /\ \E i \in 1..Len(worldObjects), j \in 1..Len(activePortals) :
          /\ worldObjects[i].kind = "scenery"
          /\ FindGroundHeight(<<worldObjects[i].pos[1], Biome(biomeKey).prefabY,
                                worldObjects[i].pos[3]>>, worldObjects)
                 > Biome(biomeKey).prefabY
          /\ IsNaN(FindGroundHeight(activePortals[j].pos, worldObjects))

----------------------------------------------------------------------------
(* The game: universe switches, the E key and the frame loop of main.js *)

GameInit ==
    PlaceIdle /\ PlayerIdle /\ NpcIdle /\ GenIdle /\ GameIdle /\ ControlsIdle /\ legacyBox3 = FALSE

\* Enter within reach of a portal: handlePortalUse calls switchUniverse(type).
\* generateUniverse rebuilds the list; for a random universe it calls
\* spawnClueObjects (clue.js:103-132) with randInt(1, 3) and may set up an
\* objective; for the hub it leaves clue.js alone, and the meshes of the old
\* universe have lost their parent (clearCurrentUniverse).
SwitchUniverse ==
    /\ switches < MaxSwitches
    /\ \E type \in {"main", "random"} :
        /\ type = "main" => universeType = "random"
        /\ universeType' = type
        /\ universeScore' = ScoreAfterSwitch(type, universeScore)
        /\ IF type = "main"
           THEN /\ clueMeshes' = [i \in DOMAIN clueMeshes |->
                                    [clueMeshes[i] EXCEPT !.parent = FALSE]]
                /\ availableClueIndices' = availableClueIndices
                /\ mainObjective' = NoObjective
                /\ mainWorldObjects' = GameContents("main", <<>>, 0)
                /\ UNCHANGED <<dealt, lastDeal>>
           ELSE \E count \in 1..3,
                   pool \in {PoolAtSpawn(availableClueIndices)},
                   objective \in
                       {NoObjective,
                        [type |-> "collect_shards", current |-> 0,
                         required |-> GameShards, items |-> 1..GameShards],
                        [type |-> "reach_beacon", current |-> 0, required |-> 1,
                         items |-> {1}]} :
                  \E numToSpawn \in {IF count < Cardinality(pool)
                                     THEN count ELSE Cardinality(pool)} :
                    \E picks \in {q \in [1..numToSpawn -> pool] :
                                    \A i, j \in 1..numToSpawn : q[i] = q[j] => i = j} :
                      /\ availableClueIndices' = pool \ {picks[i] : i \in 1..numToSpawn}
                      /\ clueMeshes' = [i \in 1..numToSpawn |->
                                          [index |-> picks[i], parent |-> TRUE]]
                      /\ mainObjective' = objective
                      /\ mainWorldObjects' =
                             GameContents("random", picks, Cardinality(objective.items))
                      /\ dealt' = (IF pool = availableClueIndices THEN dealt ELSE {})
                                      \cup {picks[i] : i \in 1..numToSpawn}
                      /\ lastDeal' = [count |-> count,
                                      refilled |-> pool # availableClueIndices,
                                      poolSize |-> Cardinality(availableClueIndices)]
        /\ scene' = InScene(mainWorldObjects')
    /\ switches' = switches + 1
    /\ UNCHANGED <<clueScore, collectedClueIndices, requested, lastFrame,
                   completed, lastPress>>
    /\ UNCHANGED <<placeVars, playerVars, legacyBox3, npcVars, genVars, controlVars>>

\* getActiveClueMeshes(), getActiveNPCsData() and currentObjective.items as
\* handleInteraction sees them: where each mesh is and whether it has a parent
Targets(kind) ==
    IF kind = "clue"
    THEN [i \in DOMAIN clueMeshes |->
            [id |-> clueMeshes[i].index, x |-> TargetX("clue", clueMeshes[i].index),
             parent |-> clueMeshes[i].parent]]
    ELSE IF kind = "npc"
    THEN IF universeScore = 0 THEN <<>>
         ELSE <<[id |-> 3, x |-> TargetX("npc", 3),
                 parent |-> [kind |-> "npc", id |-> 3] \in scene]>>
    ELSE LET ids == SelectSeq([i \in 1..GameShards |-> i],
                              LAMBDA i : i \in mainObjective.items)
         IN  [i \in DOMAIN ids |->
                 [id |-> ids[i], x |-> TargetX("item", ids[i]),
                  parent |-> [kind |-> "item", id |-> ids[i]] \in scene]]

\* keydown of KeyE (main.js:131-136): clues first, then NPCs, then objective
\* items; a later list is tried when handleInteraction returned false for
\* the earlier ones, and it returns true whenever it called the callback and
\* the callback did not throw (none of the three has a throwing path: the
\* UI and audio calls check what they use).
OnKeyDown ==
    /\ \E at \in PlayerSpots :
        LET clue == HandleInteraction(Targets("clue"), ClueReachSq, at)
            hint == HandleInteraction(Targets("npc"), NpcReachSq, at)
            item == IF mainObjective.type = "null" THEN 0
                    ELSE HandleInteraction(Targets("item"), ItemReachSq, at)
        IN
        IF clue # 0
        THEN \* handleClueCollect (main.js:229-267)
             /\ IF Includes(collectedClueIndices, clueMeshes[clue].index)
                THEN UNCHANGED <<collectedClueIndices, clueScore>>
                ELSE /\ collectedClueIndices' =
                            Append(collectedClueIndices, clueMeshes[clue].index)
                     /\ clueScore' = clueScore + 1
             /\ scene' = scene \ {[kind |-> "clue", id |-> clueMeshes[clue].index]}
             /\ mainWorldObjects' =
                    Filtered(mainWorldObjects, "clue", clueMeshes[clue].index)
             /\ clueMeshes' = [i \in 1..(Len(clueMeshes) - 1) |->
                                 IF i < clue THEN clueMeshes[i]
                                 ELSE clueMeshes[i + 1]]
             /\ lastPress' = [at |-> at,
                              called |-> <<"clue", clueMeshes[clue].index>>]
             /\ UNCHANGED <<mainObjective, completed>>
        ELSE IF hint # 0
        THEN \* handleNPCHint (main.js:269-281) shows a message at most
             /\ lastPress' = [at |-> at, called |-> <<"npc", Targets("npc")[hint].id>>]
             /\ UNCHANGED <<collectedClueIndices, clueScore, mainWorldObjects,
                            clueMeshes, mainObjective, scene, completed>>
        ELSE IF item # 0
        THEN \* handleObjectiveItemInteract (main.js:283-318)
             /\ scene' = scene \ {[kind |-> "item", id |-> Targets("item")[item].id]}
             /\ mainWorldObjects' =
                    Filtered(mainWorldObjects, "item", Targets("item")[item].id)
             /\ IF ObjectiveReached(mainObjective.current + 1, mainObjective.required)
                THEN /\ clueScore' = clueScore + 1
                     /\ completed' = completed + 1
                     /\ mainObjective' = NoObjective
                ELSE /\ clueScore' = clueScore
                     /\ completed' = completed
                     /\ mainObjective' =
                            [mainObjective EXCEPT
                                !.current = @ + 1,
                                !.items = @ \ {Targets("item")[item].id}]
             /\ lastPress' = [at |-> at, called |-> <<"item", Targets("item")[item].id>>]
             /\ UNCHANGED <<collectedClueIndices, clueMeshes>>
        ELSE /\ lastPress' = [at |-> at, called |-> <<>>]
             /\ UNCHANGED <<collectedClueIndices, clueScore, mainWorldObjects,
                            clueMeshes, mainObjective, scene, completed>>
    /\ UNCHANGED <<universeScore, availableClueIndices, universeType, switches,
                   requested, lastFrame, dealt, lastDeal>>
    /\ UNCHANGED <<placeVars, playerVars, legacyBox3, npcVars, genVars, controlVars>>

\* an animate whose request for the next frame is its last statement
AnimateRequestingLast ==
    /\ requested > 0
    /\ \E raise \in {"none", "player", "npc", "render"}, tryCatch \in BOOLEAN :
        /\ requested' = IF raise # "none" /\ ~tryCatch THEN requested - 1 ELSE requested
        /\ lastFrame' = [scheduled |-> raise = "none" \/ tryCatch, raised |-> raise,
                         escaped |-> raise # "none" /\ ~tryCatch,
                         rendered |-> raise = "none"
                                      \/ (tryCatch /\ raise # "render")]
    /\ UNCHANGED <<universeScore, clueScore, collectedClueIndices, mainObjective,
                   mainWorldObjects, availableClueIndices, clueMeshes,
                   universeType, switches, scene, completed, lastPress, dealt,
                   lastDeal>>
    /\ UNCHANGED <<placeVars, playerVars, legacyBox3, npcVars, genVars, controlVars>>

\* One frame: the browser takes a requested callback and runs animate.  Its
\* first statement requests the next frame (main.js:325); then player.update,
\* updateAllNPCs or renderer.render may raise.  main.js:339-384 wraps them in
\* try/catch; the animate of the earlier revision (universeManager.js:682-711)
\* does not, and there the exception leaves animate.
Animate ==
    /\ requested > 0
    /\ \E raise \in {"none", "player", "npc", "render"}, tryCatch \in BOOLEAN :
        /\ requested' = (requested - 1) + 1
        /\ lastFrame' = [scheduled |-> TRUE, raised |-> raise,
                         escaped |-> raise # "none" /\ ~tryCatch,
                         rendered |-> raise = "none"
                                      \/ (tryCatch /\ raise # "render")]
    /\ UNCHANGED <<universeScore, clueScore, collectedClueIndices, mainObjective,
                   mainWorldObjects, availableClueIndices, clueMeshes,
                   universeType, switches, scene, completed, lastPress, dealt,
                   lastDeal>>
    /\ UNCHANGED <<placeVars, playerVars, legacyBox3, npcVars, genVars, controlVars>>

GameNext == SwitchUniverse \/ OnKeyDown \/ Animate

SpecGame == GameInit /\ [][GameNext]_vars

\* C14: a universe switch, generateUniverse included, leaves the collected
\* clue indices and the clue score as they are and changes the universe
\* score by +1 or not at all; and no step of the game resets or decreases
\* the three values: both scores never go down and the collected list only
\* grows at its end.
C14_ScoresPersist ==
    [][/\ universeScore' >= universeScore
       /\ clueScore' >= clueScore
       /\ Len(collectedClueIndices') >= Len(collectedClueIndices)
       /\ SubSeq(collectedClueIndices', 1, Len(collectedClueIndices))
              = collectedClueIndices
       /\ switches' # switches =>
              /\ collectedClueIndices' = collectedClueIndices
              /\ clueScore' = clueScore
              /\ universeScore' \in {universeScore, universeScore + 1}]_vars

\* scores and a collected clue have survived the return to the hub
C14_Witness ==
    /\ switches >= 2
    /\ universeType = "main"
    /\ universeScore > 0
    /\ clueScore > 1
    /\ Len(collectedClueIndices) > 0

\* C17: every call of animate schedules the next frame: after a frame,
\* whatever was raised in it and whether or not it left animate, a callback
\* is requested again and the loop can take a further frame
C17_NextFrameScheduled ==
    /\ requested >= 1
    /\ lastFrame.scheduled
    /\ ENABLED Animate

\* a frame in which an update or the render raised and nothing caught it is
\* behind, and a callback is requested
C17_Witness ==
    /\ lastFrame.raised \in {"player", "npc", "render"}
    /\ lastFrame.escaped
    /\ requested >= 1

\* C23: when a clue or an objective item is collected through interaction
\* it is removed from the scene, from the world-object list and from its
\* active list (active clue meshes, objective items), so that no later frame
\* collides with it and no later interaction can select it again: the press
\* that calls the callback of a clue or an item takes the mesh out of all
\* three, and until the next universe is generated nothing comes back into
\* the scene, the list, the active clues or the objective's items
C23_CollectedIsRemoved ==
    [][switches' = switches =>
        /\ scene' \subseteq scene
        /\ InScene(mainWorldObjects') \subseteq InScene(mainWorldObjects)
        /\ {clueMeshes'[i].index : i \in DOMAIN clueMeshes'}
               \subseteq {clueMeshes[i].index : i \in DOMAIN clueMeshes}
        /\ mainObjective'.items \subseteq mainObjective.items
        /\ (/\ lastFrame' = lastFrame
            /\ lastPress'.called # <<>>
            /\ lastPress'.called[1] \in {"clue", "item"}) =>
               LET mesh == [kind |-> lastPress'.called[1], id |-> lastPress'.called[2]]
               IN  /\ mesh \in scene
                   /\ mesh \in InScene(mainWorldObjects)
                   /\ mesh \notin scene'
                   /\ mesh \notin InScene(mainWorldObjects')
                   /\ mesh.kind = "clue" =>
                          \A i \in DOMAIN clueMeshes' : clueMeshes'[i].index # mesh.id
                   /\ mesh.kind = "item" => mesh.id \notin mainObjective'.items]_vars

\* a shard was collected last, after a clue, while the other shard, another
\* clue and the NPC are still in the scene, and a frame has been rendered
C23_Witness ==
    /\ universeType = "random"
    /\ lastPress.called = <<"item", 2>>
    /\ mainObjective.items = {1}
    /\ Len(collectedClueIndices) = 1
    /\ Len(clueMeshes) = 1
    /\ Len(mainWorldObjects) = 6
    /\ lastFrame.rendered

\* C25: after any sequence of clue collections, objective completions and
\* universe switches the clue score equals the number of distinct clue
\* indices in the collected list plus the number of completed
\* mini-objectives, and the collected list never holds a duplicate index,
\* also when the same clue is dealt again after the pool is reshuffled
C25_ScoreCountsCluesAndObjectives ==
    /\ clueScore = Cardinality({collectedClueIndices[i] :
                                   i \in DOMAIN collectedClueIndices}) + completed
    /\ \A i, j \in DOMAIN collectedClueIndices :
          collectedClueIndices[i] = collectedClueIndices[j] => i = j

\* the pool was reshuffled for this universe, the clue collected before was
\* dealt again and has been collected again, and an objective was completed
C25_Witness ==
    /\ lastDeal.refilled
    /\ completed = 1
    /\ collectedClueIndices # <<>>
    /\ lastPress.called = <<"clue", collectedClueIndices[1]>>
    /\ collectedClueIndices[1] \in dealt
    /\ \A i \in DOMAIN clueMeshes : clueMeshes[i].index # collectedClueIndices[1]
    /\ [kind |-> "clue", id |-> collectedClueIndices[1]] \notin scene
    /\ clueScore = Len(collectedClueIndices) + 1

\* C26: while a mini-objective is active its progress counter plus the number
\* of its remaining items equals its required count and the counter is below
\* the required count; when the counter reaches the required count the
\* objective is completed exactly once (one bonus point) and cleared, after
\* which no item interaction changes the score
C26_ObjectiveProgress ==
    /\ [](mainObjective.type # "null" =>
            /\ mainObjective.current + Cardinality(mainObjective.items)
                   = mainObjective.required
            /\ mainObjective.current < mainObjective.required)
    /\ [](mainObjective.type = "null" => mainObjective.items = {})
    /\ [][(switches' = switches /\ lastFrame' = lastFrame) =>
            /\ (lastPress'.called # <<>> /\ lastPress'.called[1] = "item") =>
                  /\ mainObjective.type # "null"
                  /\ IF mainObjective.current + 1 = mainObjective.required
                     THEN /\ mainObjective' = NoObjective
                          /\ clueScore' = clueScore + 1
                          /\ completed' = completed + 1
                     ELSE /\ mainObjective'.current = mainObjective.current + 1
                          /\ mainObjective'.type = mainObjective.type
                          /\ clueScore' = clueScore
                          /\ completed' = completed
            /\ (lastPress'.called = <<>> \/ lastPress'.called[1] # "item") =>
                  /\ mainObjective' = mainObjective
                  /\ completed' = completed
            /\ mainObjective.type = "null" =>
                  clueScore' - clueScore
                      = Len(collectedClueIndices') - Len(collectedClueIndices)]_vars

\* one objective was completed, and of the next one the first of the two
\* shards is collected
C26_Witness ==
    /\ completed = 1
    /\ mainObjective.type = "collect_shards"
    /\ mainObjective.current = 1
    /\ mainObjective.items = {1}
    /\ lastPress.called = <<"item", 2>>

\* the objects of a kind with a parent within the distance of the spot
InReach(kind, reachSq, at) ==
    {t \in InScene(Targets(kind)) :
        t.parent /\ (at - t.x) * (at - t.x) < reachSq}

C30_PoolDealsOnce ==
    /\ [](/\ dealt \cap availableClueIndices = {}
          /\ dealt \cup availableClueIndices = 0..(MasterClueCount - 1))
    /\ [][/\ (switches' = switches \/ universeType' = "main") =>
                /\ availableClueIndices' = availableClueIndices
                /\ dealt' = dealt
          /\ (switches' # switches /\ universeType' = "random") =>
                LET picks == {clueMeshes'[i].index : i \in DOMAIN clueMeshes'}
                    pool == IF lastDeal'.refilled THEN 0..(MasterClueCount - 1)
                            ELSE availableClueIndices
                IN  /\ lastDeal'.refilled = (availableClueIndices = {})
                    /\ Cardinality(picks) = Len(clueMeshes')
                    /\ picks \subseteq pool
                    /\ ~lastDeal'.refilled => picks \cap dealt = {}
                    /\ availableClueIndices' = pool \ picks
                    /\ Len(clueMeshes') =
                           (IF lastDeal'.count < Cardinality(pool)
                            THEN lastDeal'.count ELSE Cardinality(pool))
                    /\ Len(clueMeshes') >= 1]_vars

\* the first universe took two of the three indices, the second one asked
\* for three and got the one that was left: the pool is empty, not refilled
C30_Witness ==
    /\ switches = 2
    /\ lastDeal = [count |-> 3, refilled |-> FALSE, poolSize |-> 1]
    /\ Len(clueMeshes) = 1
    /\ availableClueIndices = {}
    /\ Cardinality(dealt) = MasterClueCount


----------------------------------------------------------------------------
(* The controls: Player.randomizeControls and resetControls, called directly
   or from the tail of switchUniverse, and the movement keys.  What else
   switchUniverse does is in SpecGame and, for Player.reset, in EnterWorld. *)

ControlsInit ==
    PlaceIdle /\ PlayerIdle /\ NpcIdle /\ GenIdle /\ GameIdle /\ ControlsIdle /\ legacyBox3 = FALSE

\* Player.randomizeControls
CallRandomizeControls ==
    /\ \E js \in ShuffleDraws(Len(controlActions)) :
          controlMap' = RandomizeControls(controlMap, js)
    /\ isControlsRandomized' = TRUE
    /\ lastCall' = "randomize"
    /\ UNCHANGED <<keysPressed, lastSwitch>>
    /\ UNCHANGED notControlVars

\* Player.resetControls
CallResetControls ==
    /\ controlMap' = defaultControlMap
    /\ isControlsRandomized' = FALSE
    /\ lastCall' = "reset"
    /\ UNCHANGED <<keysPressed, lastSwitch>>
    /\ UNCHANGED notControlVars

\* switchUniverse(type), as far as the controls go: generateUniverse returns
\* shouldRandomizeControls, never true for the hub, and the tail resets the
\* controls for the hub and randomises or resets them elsewhere
SwitchControls ==
    \E type \in {"main", "random"}, chance \in BOOLEAN :
        LET shouldRandomizeControls == type # "main" /\ chance
        IN  /\ IF type = "main"
               THEN /\ controlMap' = defaultControlMap
                    /\ isControlsRandomized' = FALSE
               ELSE IF shouldRandomizeControls
                    THEN /\ \E js \in ShuffleDraws(Len(controlActions)) :
                               controlMap' = RandomizeControls(controlMap, js)
                         /\ isControlsRandomized' = TRUE
                    ELSE /\ controlMap' = defaultControlMap
                         /\ isControlsRandomized' = FALSE
            /\ lastCall' = "switch"
            /\ lastSwitch' = [type |-> type,
                              shouldRandomizeControls |-> shouldRandomizeControls,
                              was |-> controlMap]
            /\ UNCHANGED keysPressed
            /\ UNCHANGED notControlVars

\* onKeyDown of a movement key, the pointer locked
MoveKeyDown ==
    /\ \E code \in MoveKeys : keysPressed' = keysPressed \cup {code}
    /\ lastCall' = "keydown"
    /\ UNCHANGED <<controlMap, isControlsRandomized, lastSwitch>>
    /\ UNCHANGED notControlVars

\* onKeyUp of a movement key
MoveKeyUp ==
    /\ \E code \in MoveKeys : keysPressed' = keysPressed \ {code}
    /\ lastCall' = "keyup"
    /\ UNCHANGED <<controlMap, isControlsRandomized, lastSwitch>>
    /\ UNCHANGED notControlVars

ControlsNext ==
    CallRandomizeControls \/ CallResetControls \/ SwitchControls \/ MoveKeyDown \/ MoveKeyUp

SpecControls == ControlsInit /\ [][ControlsNext]_vars

\* C27: after any sequence of randomizeControls, resetControls and universe
\* switches the control map assigns the four keys W, S, A, D to the four
\* actions forward, backward, left, right one-to-one; right after a switch to
\* the hub, and right after a switch to a generated universe whose
\* randomization flag is false, the map is the default map.
C27_ControlMapIsAPermutation ==
    /\ DOMAIN controlMap = MoveKeys
    /\ \A a \in {"forward", "backward", "left", "right"} :
          Cardinality({k \in MoveKeys : controlMap[k] = a}) = 1
    /\ (lastCall = "switch" /\ (lastSwitch.type = "main" \/ ~lastSwitch.shouldRandomizeControls)) =>
          /\ controlMap = defaultControlMap
          /\ ~isControlsRandomized

\* a generated universe whose flag is false, entered with shuffled controls
\* and W and D down: the keys steer as the default map says again
C27_Witness ==
    /\ lastCall = "switch"
    /\ lastSwitch.type = "random"
    /\ ~lastSwitch.shouldRandomizeControls
    /\ lastSwitch.was["KeyW"] = "right"
    /\ lastSwitch.was["KeyD"] = "backward"
    /\ keysPressed = {"KeyW", "KeyD"}
    /\ InputVector(keysPressed, lastSwitch.was) = <<1, -1>>
    /\ InputVector(keysPressed, controlMap) = <<1, 1>>
    /\ controlMap = defaultControlMap

====
